---------------------------- MODULE Spec2Model ----------------------------
(***************************************************************************)
(* HealthOps referral pipeline and autopilot journey.                      *)
(*                                                                         *)
(* Part I   Python values, _deep_merge and apply_agent_result              *)
(*          (backend/src/services/pipeline_utils.py).                      *)
(* Part II  The seven stage agents (backend/src/services/agents) and the   *)
(*          two orchestrations: the loop of run_for_row and                *)
(*          AgentManager.run_all.                                          *)
(* Part III The merge engine on arbitrary patches.                         *)
(* Part IV  The journey event store, scheduling store and autopilot of     *)
(*          backend/app.py (file mode).                                    *)
(***************************************************************************)
EXTENDS Integers, Sequences, FiniteSets, TLC

VARIABLES
    \* ---- pipeline run (Parts I-II)
    row,        \* the CSV row handed to run_for_row
    ctx,        \* the shared context dict
    pc,         \* position of the run: "start", index of the next agent, "done"
    results,    \* audit trail: the AgentResults produced so far
    trace,      \* context.state after every merge of the run, first entry = pre-run state
    via,        \* which orchestration produced `results`: "none", "loop", "run_all"
    \* ---- merge engine (Part III)
    mctx,       \* context the patches are applied to
    mprior,     \* the context before any patch
    mdata,      \* the two result_data payloads <<D1, D2>>
    mlog,       \* contexts obtained so far, one per application
    mpc,        \* what has been applied: "init", "p1", "p1p2", "once", "twice"
    \* ---- journey / autopilot (Part IV)
    runtime,    \* referrals_runtime.json: list of referral rows
    journey,    \* journey_overrides.json: referral id -> entry
    sched,      \* scheduling_overrides.json: referral id -> decision
    now,        \* wall clock (seconds)
    lastOp,     \* the handler that produced this state
    manual,     \* number of operator requests (advance, apply) made so far
    twin,       \* a second, independent run of the same case (convergence)
    \* ---- caregiver matching (Part V)
    mreferral,  \* the referral handed to match_caregivers
    mcaregivers,\* the caregiver list handed to match_caregivers
    matches,    \* what the first call returned
    rematch,    \* what a second call with the same arguments returned
    matchpc,    \* "idle", "build", "matched", "rematched"
    \* ---- scheduling priority queue (Part VI)
    qreferrals, \* the referral rows ops_summary loaded
    queue,      \* the priority queue it answered with (`top`)
    qlimit,     \* the limit of the request
    qpc,        \* "idle", "build", "ranked"
    \* ---- intake requests in flight (Part VII)
    inflight,   \* what each suspended intake_from_pdf request loaded before its await
    created,    \* number of intake requests that completed
    \* ---- three-agent workflow (Part VIII)
    wreferral,  \* the referral handed to process_referral
    wcaregivers,\* the caregivers handed to process_referral
    llm,        \* what Gemini did on each of the three advisory calls
    workflow,   \* the workflow_result process_referral returned
    \* ---- store failures (Part IX)
    fault,      \* the store whose writes failed during the last tick, or "none"
    surfaced,   \* whether that tick reported a failure to its caller
    \* ---- AI sorting of pending referrals (Part XI)
    sreferrals, \* the rows the query of get_pending_referrals returned
    sreply,     \* what Gemini did: it raised, or the pieces of its text between commas
    sorted_referrals, \* what sort_referrals returned
    final_referrals,  \* the referrals of the answer
    sortpc      \* "idle", "build", "sorted"

pipeVars == <<row, ctx, pc, results, trace, via>>
mergeVars == <<mctx, mprior, mdata, mlog, mpc>>
journeyVars == <<runtime, journey, sched, now, lastOp, manual>>
matchVars == <<mreferral, mcaregivers, matches, rematch, matchpc>>
queueVars == <<qreferrals, queue, qlimit, qpc>>
raceVars == <<inflight, created>>
workVars == <<wreferral, wcaregivers, llm, workflow>>
faultVars == <<fault, surfaced>>
sortVars == <<sreferrals, sreply, sorted_referrals, final_referrals, sortpc>>
extVars == <<matchVars, queueVars, raceVars, workVars, faultVars, sortVars>>
vars == <<row, ctx, pc, results, trace, via, mctx, mprior, mdata, mlog, mpc,
          runtime, journey, sched, now, lastOp, manual, twin, extVars>>

MatchIdle ==
    /\ mreferral = <<>> /\ mcaregivers = <<>> /\ matches = <<>> /\ rematch = <<>>
    /\ matchpc = "idle"

QueueIdle == qreferrals = <<>> /\ queue = <<>> /\ qlimit = 0 /\ qpc = "idle"

RaceIdle == inflight = <<>> /\ created = 0

WorkIdle == wreferral = <<>> /\ wcaregivers = <<>> /\ llm = <<>> /\ workflow = <<>>

FaultIdle == fault = "none" /\ surfaced = FALSE

SortIdle ==
    /\ sreferrals = <<>> /\ sreply = <<>> /\ sorted_referrals = <<>> /\ final_referrals = <<>>
    /\ sortpc = "idle"

ExtIdle == MatchIdle /\ QueueIdle /\ RaceIdle /\ WorkIdle /\ FaultIdle /\ SortIdle

-----------------------------------------------------------------------------
(***************************************************************************)
(* Part I.  Python values.  A value is None, a str, a bool or a dict; the  *)
(* tag keeps isinstance() decidable.                                       *)
(***************************************************************************)
NoneV == [t |-> "none"]
Str(s) == [t |-> "str", s |-> s]
Bool(b) == [t |-> "bool", b |-> b]
Dict(f) == [t |-> "dict", d |-> f]
EmptyDict == Dict(<<>>)

IsDict(v) == v.t = "dict"
IsStr(v) == v.t = "str"

\* Python truthiness: None, "", False and {} are falsy.
Truthy(v) ==
    CASE v.t = "none" -> FALSE
      [] v.t = "str"  -> v.s # ""
      [] v.t = "bool" -> v.b
      [] v.t = "dict" -> DOMAIN v.d # {}

\* dict.get(k): None when the key is missing.
Get(v, k) == IF IsDict(v) /\ k \in DOMAIN v.d THEN v.d[k] ELSE NoneV

\* d[k] = x
Put(v, k, x) == Dict([kk \in DOMAIN v.d \cup {k} |-> IF kk = k THEN x ELSE v.d[kk]])

\* d.setdefault(k, x): tests presence of the key, not truthiness.
SetDefault(v, k, x) == IF k \in DOMAIN v.d THEN v ELSE Put(v, k, x)

\* a or b
OrV(a, b) == IF Truthy(a) THEN a ELSE b

\* str.strip(): the only strings with surrounding blanks in the model are
\* the blank string and the padded service name.
Strip(s) ==
    CASE s = " " -> ""
      [] s = " ECM " -> "ECM"
      [] OTHER -> s

\* str.lower() on the strings the model uses.
Lower(s) ==
    CASE s = "Y" -> "y"
      [] s = "N" -> "n"
      [] s = "APPROVED" -> "approved"
      [] s = "DENIED" -> "denied"
      [] s = "COMPLETE" -> "complete"
      [] OTHER -> s

\* str(x)
StrOf(v) ==
    CASE v.t = "str" -> v.s
      [] v.t = "bool" -> IF v.b THEN "True" ELSE "False"
      [] v.t = "none" -> "None"
      [] OTHER -> "{...}"

\* str(x or "").strip().lower()
StripLower(v) == IF Truthy(v) THEN Lower(Strip(StrOf(v))) ELSE ""

\* isinstance(v, str) and v.strip()
NonBlankStr(v) == IsStr(v) /\ Strip(v.s) # ""

\* Mutant: a key the destination already holds keeps its value.
_deep_merge_keep(dst, src) ==
    Dict([k \in DOMAIN dst.d \cup DOMAIN src.d |->
        IF k \in DOMAIN dst.d THEN dst.d[k] ELSE src.d[k]])

\* Mutant: a map the destination holds is not replaced by a scalar.
_deep_merge_maps(dst, src) ==
    Dict([k \in DOMAIN dst.d \cup DOMAIN src.d |->
        IF k \notin DOMAIN src.d THEN dst.d[k]
        ELSE IF IsDict(Get(dst, k)) /\ ~IsDict(src.d[k]) THEN dst.d[k]
        ELSE src.d[k]])

RECURSIVE _deep_merge(_, _)
_deep_merge(dst, src) ==
    Dict([k \in DOMAIN dst.d \cup DOMAIN src.d |->
        IF k \notin DOMAIN src.d THEN dst.d[k]
        ELSE IF IsDict(src.d[k]) /\ IsDict(Get(dst, k))
             THEN _deep_merge(dst.d[k], src.d[k])
             ELSE src.d[k]])

\* Mutant: an action already in the list is not appended again.
ExtendActions_dedupe(actions, actions_add) ==
    actions \o SelectSeq(actions_add, LAMBDA a : \A i \in 1..Len(actions) : actions[i] # a)

\* Lines 43-46: context["actions"].extend(actions_add)
ExtendActions(actions, actions_add) == actions \o actions_add

\* dict.update
DictUpdate(a, b) == [k \in DOMAIN a \cup DOMAIN b |-> IF k \in DOMAIN b THEN b[k] ELSE a[k]]

\* result_data: `present` is False for the empty dict {} only; a key that is
\* absent and a key whose value is empty take the same branch of every
\* `result_data.get(k) or {}`.
Data(st, dec, patch, acts) ==
    [present |-> TRUE, state |-> st, decisions |-> dec, normalized_patch |-> patch,
     normalized |-> EmptyDict, actions_add |-> acts]
EmptyData ==
    [present |-> FALSE, state |-> "", decisions |-> <<>>, normalized_patch |-> EmptyDict,
     normalized |-> EmptyDict, actions_add |-> <<>>]


\* Lines 87-106: the legacy extraction fields, filled with setdefault in the
\* order of the code (nested patient first, then the flat keys, then payer).
BridgeFields(fields, norm) ==
    LET patient == OrV(Get(norm, "patient"), EmptyDict)
        payer == OrV(Get(norm, "payer"), EmptyDict)
        f1 == IF IsDict(patient) /\ Truthy(Get(patient, "name"))
              THEN SetDefault(fields, "patient_name", Get(patient, "name")) ELSE fields
        f2 == IF IsDict(patient) /\ Truthy(Get(patient, "dob"))
              THEN SetDefault(f1, "date_of_birth", Get(patient, "dob")) ELSE f1
        f3 == IF Truthy(Get(norm, "patient_name"))
              THEN SetDefault(f2, "patient_name", Get(norm, "patient_name")) ELSE f2
        f4 == IF Truthy(Get(norm, "date_of_birth"))
              THEN SetDefault(f3, "date_of_birth", Get(norm, "date_of_birth")) ELSE f3
        f5 == IF Truthy(Get(norm, "member_id"))
              THEN SetDefault(f4, "member_id", Get(norm, "member_id")) ELSE f4
        f6 == IF IsDict(payer) /\ Truthy(Get(payer, "member_id"))
              THEN SetDefault(f5, "member_id", Get(payer, "member_id")) ELSE f5
    IN f6

\* Lines 111-124 and 174-176: a nested entry that is not a dict is replaced;
\* patient and payer keep a non-None scalar as their name.
CoerceNamed(existing) ==
    IF IsDict(existing) THEN existing
    ELSE IF existing = NoneV THEN EmptyDict
    ELSE Dict([k \in {"name"} |-> Str(StrOf(existing))])

CoercePlain(existing) == IF IsDict(existing) THEN existing ELSE EmptyDict

\* d[k] = v when v is truthy and d[k] is falsy
FillIfMissing(d, k, v) == IF Truthy(v) /\ ~Truthy(Get(d, k)) THEN Put(d, k, v) ELSE d

\* Line 137: addr if not city else f"{addr}, {city}{' ' + str(zipc) if zipc else ''}"
FormatAddress(addr, city, zipc) ==
    IF ~Truthy(city) THEN addr
    ELSE Str(StrOf(addr) \o ", " \o StrOf(city)
             \o (IF Truthy(zipc) THEN " " \o StrOf(zipc) ELSE ""))

\* Lines 126-143: flat patient keys -> nested patient.
PatientFromFlat(patient_norm, norm) ==
    LET addr == OrV(Get(norm, "patient_address"), Get(norm, "address"))
        city == OrV(Get(norm, "patient_city"), Get(norm, "city"))
        zipc == OrV(Get(norm, "patient_zip"), Get(norm, "zip"))
        phone == OrV(Get(norm, "patient_phone"), Get(norm, "phone"))
        p1 == FillIfMissing(patient_norm, "name", Get(norm, "patient_name"))
        p2 == FillIfMissing(p1, "dob", Get(norm, "date_of_birth"))
        p3 == IF Truthy(addr) /\ ~Truthy(Get(p2, "address"))
              THEN Put(p2, "address", FormatAddress(addr, city, zipc)) ELSE p2
        p4 == FillIfMissing(p3, "city", city)
        p5 == FillIfMissing(p4, "zip", zipc)
        p6 == FillIfMissing(p5, "phone", phone)
    IN p6

\* Lines 144-167: payer_val is norm.get("payer") read after the coercion, so
\* it is the coerced payer entry itself whenever norm aliases
\* context["normalized"], and None when norm is the fresh {} of line 89.
PayerFromFlat(payer_norm, norm, aliased) ==
    LET payer_val == IF aliased THEN payer_norm ELSE NoneV
        y1 == IF IsDict(payer_val)
              THEN FillIfMissing(FillIfMissing(payer_norm, "name", Get(payer_val, "name")),
                                 "member_id", Get(payer_val, "member_id"))
              ELSE FillIfMissing(payer_norm, "name", payer_val)
        y2 == FillIfMissing(y1, "member_id", Get(norm, "member_id"))
        auth_num == Get(norm, "authorization_number")
        ref_id == Get(norm, "referral_id")
        \* Demo fallback (lines 157-167)
        y3 == IF Truthy(Get(y2, "member_id")) THEN y2
              ELSE IF NonBlankStr(auth_num) THEN Put(y2, "member_id", Str(Strip(auth_num.s)))
              ELSE IF NonBlankStr(ref_id) THEN Put(y2, "member_id", Str(Strip(ref_id.s)))
              ELSE y2
    IN y3

CompletedWords == {"yes", "true", "completed", "complete", "done"}

\* First of signed_date, date_of_service, issued_date that is a non-blank str.
FallbackDate(norm) ==
    IF NonBlankStr(Get(norm, "signed_date")) THEN Str(Strip(Get(norm, "signed_date").s))
    ELSE IF NonBlankStr(Get(norm, "date_of_service")) THEN Str(Strip(Get(norm, "date_of_service").s))
    ELSE IF NonBlankStr(Get(norm, "issued_date")) THEN Str(Strip(Get(norm, "issued_date").s))
    ELSE NoneV

\* Lines 179-198.
AssessmentFromFlat(assessment_norm, norm) ==
    LET a1 == FillIfMissing(assessment_norm, "date", Get(norm, "assessment_date"))
        a2 == IF Truthy(Get(norm, "assessment_status")) /\ ~Truthy(Get(a1, "status"))
              THEN Put(a1, "status", Str(Lower(StrOf(Get(norm, "assessment_status")))))
              ELSE a1
        completed_val == StripLower(Get(norm, "assessment_completed"))
        a3 == IF completed_val # "" /\ ~Truthy(Get(a2, "status")) /\ completed_val \in CompletedWords
              THEN Put(a2, "status", Str("complete")) ELSE a2
        a4 == IF ~Truthy(Get(a3, "date")) /\ FallbackDate(norm) # NoneV
              THEN Put(a3, "date", FallbackDate(norm)) ELSE a3
        a5 == IF ~Truthy(Get(a4, "status")) /\ Truthy(Get(a4, "date"))
              THEN Put(a4, "status", Str("complete")) ELSE a4
    IN a5

\* Lines 200-207.
ReferralFromFlat(referral_norm, norm) ==
    LET proc == Get(norm, "procedure")
        svc_cat == Get(norm, "service_category")
    IN IF Truthy(Get(referral_norm, "requested_service")) THEN referral_norm
       ELSE IF Truthy(proc) /\ Truthy(svc_cat)
            THEN Put(referral_norm, "requested_service", Str(StrOf(svc_cat) \o " - " \o StrOf(proc)))
       ELSE IF Truthy(proc) THEN Put(referral_norm, "requested_service", proc)
       ELSE referral_norm

\* The context of one evaluation.  `fields` is
\* context["extraction"]["extraction"]["fields"].
NewContext(st) ==
    [state |-> st, decisions |-> <<>>, actions |-> <<>>, normalized |-> EmptyDict,
     fields |-> EmptyDict]

apply_agent_result(context, result_data) ==
    IF ~result_data.present THEN context
    ELSE
    LET decisions == DictUpdate(context.decisions, result_data.decisions)
        n1 == IF Truthy(result_data.normalized_patch)
              THEN _deep_merge(context.normalized, result_data.normalized_patch)
              ELSE context.normalized
        n2 == IF Truthy(result_data.normalized)
              THEN _deep_merge(n1, result_data.normalized)
              ELSE n1
        actions == ExtendActions(context.actions, result_data.actions_add)
        state == IF result_data.state # "" THEN result_data.state ELSE context.state
        \* norm = context.get("normalized") or {}: the same dict unless empty
        aliased == Truthy(n2)
        fields1 == BridgeFields(context.fields, n2)
        patient_norm == PatientFromFlat(CoerceNamed(Get(n2, "patient")), n2)
        payer_norm == PayerFromFlat(CoerceNamed(Get(n2, "payer")), n2, aliased)
        fields2 == IF Truthy(Get(payer_norm, "member_id")) /\ ~Truthy(Get(fields1, "member_id"))
                   THEN Put(fields1, "member_id", Get(payer_norm, "member_id")) ELSE fields1
        assessment_norm == AssessmentFromFlat(CoercePlain(Get(n2, "assessment")), n2)
        referral_norm == ReferralFromFlat(CoercePlain(Get(n2, "referral")), n2)
        n3 == Put(Put(Put(Put(n2, "patient", patient_norm), "payer", payer_norm),
                      "referral", referral_norm), "assessment", assessment_norm)
    IN [state |-> state, decisions |-> decisions, actions |-> actions,
        normalized |-> n3, fields |-> fields2]

-----------------------------------------------------------------------------
(***************************************************************************)
(* Part II.  Pipeline states, stage agents, orchestration.                 *)
(***************************************************************************)
\* PipelineState, in pipeline order.
PipelineStates ==
    <<"REFERRAL_RECEIVED", "INTAKE_COMPLETE", "ASSESSMENT_COMPLETE", "ELIGIBILITY_VERIFIED",
      "AUTH_PENDING", "AUTH_APPROVED", "READY_TO_SCHEDULE">>

StateIndex(st) == CHOOSE i \in 1..Len(PipelineStates) : PipelineStates[i] = st

AgentResult(name, success, data, issues) ==
    [name |-> name, success |-> success, data |-> data, issues |-> issues]

Action(type, owner, detail) == [type |-> type, owner |-> owner, detail |-> detail]

ReferralReceivedAgent(context) ==
    LET fields == context.fields
        patient_name == OrV(Get(fields, "patient_name"), Get(fields, "name"))
        dob == OrV(Get(fields, "dob"), Get(fields, "date_of_birth"))
        member_id == OrV(Get(fields, "member_id"), Get(fields, "insurance_id"))
        success == (Truthy(patient_name) /\ Truthy(dob)) \/ Truthy(member_id)
        issues == IF success THEN <<>> ELSE <<"Need patient_name+dob OR member_id to open case">>
        patch == Dict([k \in {"patient", "payer"} |->
                    IF k = "patient"
                    THEN Dict([j \in {"name", "dob"} |-> IF j = "name" THEN patient_name ELSE dob])
                    ELSE Dict([j \in {"member_id"} |-> member_id])])
    IN AgentResult("ReferralReceivedAgent", success,
           Data(IF success THEN "INTAKE_COMPLETE" ELSE "REFERRAL_RECEIVED",
                [k \in {"referral_received"} |-> success], patch, <<>>),
           issues)

IntakeCompleteAgent(context) ==
    LET normalized == context.normalized
        patient == OrV(Get(normalized, "patient"), EmptyDict)
        payer == OrV(Get(normalized, "payer"), EmptyDict)
        referral == OrV(Get(normalized, "referral"), EmptyDict)
        has_patient_core == Truthy(Get(patient, "name")) /\ Truthy(Get(patient, "dob"))
        has_member == Truthy(Get(payer, "member_id"))
        missing == (IF ~has_patient_core /\ ~has_member
                    THEN <<"patient.name", "patient.dob", "payer.member_id">> ELSE <<>>)
                   \o (IF ~Truthy(Get(payer, "name")) THEN <<"payer.name">> ELSE <<>>)
                   \o (IF ~Truthy(Get(referral, "requested_service"))
                       THEN <<"referral.requested_service">> ELSE <<>>)
        success == Len(missing) = 0
    IN AgentResult("IntakeCompleteAgent", success,
           Data(IF success THEN "ASSESSMENT_COMPLETE" ELSE "INTAKE_COMPLETE",
                [k \in {"intake_complete"} |-> success], EmptyDict,
                IF success THEN <<>> ELSE <<Action("MISSING_INFO", "Intake", missing)>>),
           missing)

AssessmentCompleteAgent(context) ==
    LET assessment == OrV(Get(context.normalized, "assessment"), EmptyDict)
        assessment_done == Get(assessment, "status") = Str("complete")
                           \/ Truthy(Get(assessment, "date"))
        issues == IF assessment_done THEN <<>>
                  ELSE <<"Assessment not confirmed (need assessment.date or assessment.status=complete)">>
        success == Len(issues) = 0
    IN AgentResult("AssessmentCompleteAgent", success,
           Data(IF success THEN "ELIGIBILITY_VERIFIED" ELSE "ASSESSMENT_COMPLETE",
                [k \in {"assessment_complete"} |-> success], EmptyDict, <<>>),
           issues)

\* The eligibility stage without its patch: the success is reported, the
\* status is not written.
EligibilityVerifiedAgent_unverified(context) ==
    LET payer == OrV(Get(context.normalized, "payer"), EmptyDict)
        issues == (IF ~Truthy(Get(payer, "name")) THEN <<"payer.name missing">> ELSE <<>>)
                  \o (IF ~Truthy(Get(payer, "member_id")) THEN <<"payer.member_id missing">> ELSE <<>>)
        success == Len(issues) = 0
    IN AgentResult("EligibilityVerifiedAgent", success,
           Data(IF success THEN "AUTH_PENDING" ELSE "ELIGIBILITY_VERIFIED",
                [k \in {"eligibility_verified"} |-> success],
                EmptyDict,
                IF success THEN <<>> ELSE <<Action("ELIGIBILITY_VERIFY", "Ops", issues)>>),
           issues)

EligibilityVerifiedAgent(context) ==
    LET payer == OrV(Get(context.normalized, "payer"), EmptyDict)
        issues == (IF ~Truthy(Get(payer, "name")) THEN <<"payer.name missing">> ELSE <<>>)
                  \o (IF ~Truthy(Get(payer, "member_id")) THEN <<"payer.member_id missing">> ELSE <<>>)
        success == Len(issues) = 0
    IN AgentResult("EligibilityVerifiedAgent", success,
           Data(IF success THEN "AUTH_PENDING" ELSE "ELIGIBILITY_VERIFIED",
                [k \in {"eligibility_verified"} |-> success],
                IF success
                THEN Dict([k \in {"eligibility"} |-> Dict([j \in {"status"} |-> Str("verified")])])
                ELSE EmptyDict,
                IF success THEN <<>> ELSE <<Action("ELIGIBILITY_VERIFY", "Ops", issues)>>),
           issues)

AUTH_REQUIRED_SERVICES == {"ECM", "Community Support", "CS"}

AuthPendingAgent(context) ==
    LET normalized == context.normalized
        referral == OrV(Get(normalized, "referral"), EmptyDict)
        service == IF Truthy(Get(referral, "requested_service"))
                   THEN Strip(StrOf(Get(referral, "requested_service"))) ELSE ""
        auth_required_flag == StripLower(Get(normalized, "authorization_required"))
        auth_required ==
            IF auth_required_flag \in {"y", "yes", "true", "1"} THEN TRUE
            ELSE IF auth_required_flag \in {"n", "no", "false", "0"} THEN FALSE
            ELSE service \in AUTH_REQUIRED_SERVICES
    IN IF service = ""
       THEN AgentResult("AuthPendingAgent", FALSE,
                Data("AUTH_PENDING", [k \in {"auth_planned"} |-> FALSE], EmptyDict, <<>>),
                <<"referral.requested_service missing">>)
       ELSE AgentResult("AuthPendingAgent", TRUE,
                Data("AUTH_APPROVED",
                     [k \in {"auth_required", "auth_planned"} |->
                        IF k = "auth_required" THEN auth_required ELSE TRUE],
                     Dict([k \in {"auth"} |-> Dict([j \in {"required", "status"} |->
                        IF j = "required" THEN Bool(auth_required)
                        ELSE Str(IF auth_required THEN "pending" ELSE "not_required")])]),
                     IF auth_required
                     THEN <<Action("SUBMIT_AUTH", "Auth Team", <<service>>)>> ELSE <<>>),
                <<>>)

\* Lines 27-47: the check made when authorization is required (or unknown).
AuthApprovedChecked(context) ==
    LET normalized == context.normalized
        auth == OrV(Get(normalized, "auth"), EmptyDict)
        normalized_status == StripLower(Get(normalized, "authorization_status"))
        auth_number == Get(normalized, "authorization_number")
        start == Get(normalized, "authorization_start_date")
        end == Get(normalized, "authorization_end_date")
        issues0 == (IF ~Truthy(auth_number) THEN <<"auth_number missing">> ELSE <<>>)
                   \o (IF ~Truthy(start) THEN <<"auth_start_date missing">> ELSE <<>>)
                   \o (IF ~Truthy(end) THEN <<"auth_end_date missing">> ELSE <<>>)
        honored == Truthy(Get(auth, "required")) /\ normalized_status = "approved"
        issues == IF honored THEN <<>> ELSE issues0
        success == Len(issues) = 0
    IN AgentResult("AuthApprovedAgent", success,
           Data(IF success THEN "READY_TO_SCHEDULE" ELSE "AUTH_APPROVED",
                [k \in {"auth_approved"} |-> success],
                IF success
                THEN Dict([k \in {"auth"} |->
                       Dict([j \in {"status", "auth_number", "start_date", "end_date"} |->
                           CASE j = "status" -> Str("approved")
                             [] j = "auth_number" -> auth_number
                             [] j = "start_date" -> start
                             [] j = "end_date" -> end])])
                ELSE EmptyDict,
                <<>>),
           issues)

\* Mutant: the "not required" shortcut of lines 18-25 is missing.
AuthApprovedAgent_noskip(context) == AuthApprovedChecked(context)

AuthApprovedAgent(context) ==
    IF Get(OrV(Get(context.normalized, "auth"), EmptyDict), "required") = Bool(FALSE)
    THEN AgentResult("AuthApprovedAgent", TRUE,
             Data("READY_TO_SCHEDULE", [k \in {"auth_approved"} |-> TRUE], EmptyDict, <<>>),
             <<>>)
    ELSE AuthApprovedChecked(context)

ReadyToScheduleAgent(context) ==
    LET normalized == context.normalized
        patient == OrV(Get(normalized, "patient"), EmptyDict)
        eligibility == OrV(Get(normalized, "eligibility"), EmptyDict)
        auth == OrV(Get(normalized, "auth"), EmptyDict)
        issues == (IF ~Truthy(Get(patient, "phone")) /\ ~Truthy(Get(patient, "address"))
                   THEN <<"Need patient phone or address">> ELSE <<>>)
                  \o (IF Get(eligibility, "status") # Str("verified")
                      THEN <<"Eligibility not verified">> ELSE <<>>)
                  \o (IF Truthy(Get(auth, "required")) /\ Get(auth, "status") # Str("approved")
                      THEN <<"Auth required but not approved">> ELSE <<>>)
        success == Len(issues) = 0
    IN AgentResult("ReadyToScheduleAgent", success,
           Data("READY_TO_SCHEDULE", [k \in {"ready_to_schedule"} |-> success], EmptyDict,
                IF success THEN <<>> ELSE <<Action("SCHEDULING_BLOCKER", "Scheduler", issues)>>),
           issues)

\* The agent list of run_for_row, by position.
NumAgents == 7

RunAgent(i, context) ==
    CASE i = 1 -> ReferralReceivedAgent(context)
      [] i = 2 -> IntakeCompleteAgent(context)
      [] i = 3 -> AssessmentCompleteAgent(context)
      [] i = 4 -> EligibilityVerifiedAgent(context)
      [] i = 5 -> AuthPendingAgent(context)
      [] i = 6 -> AuthApprovedAgent(context)
      [] i = 7 -> ReadyToScheduleAgent(context)

AgentNames ==
    <<"ReferralReceivedAgent", "IntakeCompleteAgent", "AssessmentCompleteAgent",
      "EligibilityVerifiedAgent", "AuthPendingAgent", "AuthApprovedAgent",
      "ReadyToScheduleAgent">>

\* CSV cells: a column that is missing or empty, or a value.
Cell(values) == {NoneV} \cup {Str(v) : v \in values}

\* The rows of referrals_synthetic.csv that the run is tried on.  Columns that
\* no agent and no step of apply_agent_result reads are left out.
Rows ==
    [referral_id : Cell({"REF-1"}),
     patient_name : Cell({"Ann"}),
     patient_dob : Cell({"1950-01-01"}),
     payer : Cell({"Aetna"}),
     auth_required : Cell({"Y", "N"}),
     auth_status : Cell({"APPROVED", "DENIED"}),
     auth_number : Cell({"A1"}),
     auth_start_date : Cell({"2026-01-01"}),
     auth_end_date : Cell({"2026-06-30"}),
     use_case : Cell({"HOME_CARE"}),
     service_type : Cell({"ECM", "PersonalCare"}),
     scheduled_date : {NoneV},
     referral_received_date : Cell({"2026-01-05"}),
     first_outreach_date : {NoneV},
     patient_address : {NoneV},
     patient_city : {Str("Oakland")},
     patient_zip : {NoneV},
     patient_phone : Cell({"555-0100"})]

normalize_from_row(r) ==
    Dict([k \in {"referral_id", "patient_name", "date_of_birth", "payer",
                 "authorization_required", "authorization_status", "authorization_number",
                 "authorization_start_date", "authorization_end_date", "service_category",
                 "procedure", "date_of_service", "city", "signed_date", "issued_date",
                 "patient_address", "patient_city", "patient_zip", "patient_phone"} |->
        CASE k = "referral_id" -> r.referral_id
          [] k = "patient_name" -> r.patient_name
          [] k = "date_of_birth" -> r.patient_dob
          [] k = "payer" -> r.payer
          [] k = "authorization_required" -> r.auth_required
          [] k = "authorization_status" -> r.auth_status
          [] k = "authorization_number" -> OrV(r.auth_number, NoneV)
          [] k = "authorization_start_date" -> r.auth_start_date
          [] k = "authorization_end_date" -> r.auth_end_date
          [] k = "service_category" -> r.use_case
          [] k = "procedure" -> r.service_type
          [] k = "date_of_service" -> r.scheduled_date
          [] k = "city" -> r.patient_city
          [] k = "signed_date" -> r.referral_received_date
          [] k = "issued_date" -> r.first_outreach_date
          [] k = "patient_address" -> r.patient_address
          [] k = "patient_city" -> r.patient_city
          [] k = "patient_zip" -> r.patient_zip
          [] k = "patient_phone" -> r.patient_phone])

\* pc: 0 before the row is normalized, i in 1..NumAgents when agent i is
\* next, PcDone when the run is over.
PcDone == NumAgents + 1

\* Idle values of the parts a specification does not exercise.
PipeIdle ==
    /\ row = NoneV /\ ctx = NewContext("REFERRAL_RECEIVED") /\ pc = PcDone
    /\ results = <<>> /\ trace = <<>> /\ via = "none"

\* run_for_row, lines 98-104: a fresh context for the row.
\* The pre-run state is the one the scripts construct.
InitRun(states) ==
    /\ row \in Rows
    /\ \E st \in states : ctx = NewContext(st) /\ trace = <<st>>
    /\ pc = 0
    /\ results = <<>>
    /\ via = "none"

\* run_for_row line 105.
Normalize ==
    /\ pc = 0
    /\ ctx' = apply_agent_result(ctx, Data("", <<>>, normalize_from_row(row), <<>>))
    /\ trace' = Append(trace, ctx'.state)
    /\ pc' = 1
    /\ UNCHANGED <<row, results, via>>

\* One turn of the loop of run_for_row (lines 118-122) and of
\* run_pipeline_demo.main (lines 60-68): run, merge, stop on failure.
LoopStep ==
    /\ pc \in 1..NumAgents
    /\ via \in {"none", "loop"}
    /\ LET r == RunAgent(pc, ctx)
       IN /\ ctx' = apply_agent_result(ctx, r.data)
          /\ results' = Append(results, r)
          /\ trace' = Append(trace, ctx'.state)
          /\ pc' = IF r.success /\ pc < NumAgents THEN pc + 1 ELSE PcDone
    /\ via' = "loop"
    /\ UNCHANGED row

\* AgentManager.run_all over the same agent list: every agent runs against
\* the context it was given, nothing is merged, nothing stops the loop.
\* (No stage agent raises on a context produced by apply_agent_result.)
run_all ==
    /\ pc = 1
    /\ via = "none"
    /\ results' = [i \in 1..NumAgents |-> RunAgent(i, ctx)]
    /\ pc' = PcDone
    /\ via' = "run_all"
    /\ UNCHANGED <<row, ctx, trace>>

-----------------------------------------------------------------------------
(***************************************************************************)
(* Properties of the pipeline run.                                         *)
(***************************************************************************)
Last(seq) == seq[Len(seq)]

C2_RunMergesAndStopsAtFailure ==
    pc = PcDone /\ via # "none" =>
        /\ \A i \in 1..Len(results) : results[i].name = AgentNames[i]
        /\ \A i \in 1..(Len(results) - 1) : results[i].success
        /\ \A i \in 1..Len(results) :
               \A k \in DOMAIN results[i].data.decisions : k \in DOMAIN ctx.decisions
        /\ ctx.state = Last(results).data.state

\* C7: a case without member id that lacks patient name or date of birth is
\* refused by ReferralReceived, whatever its other fields are.
C7_NoIdentityFailsReferralReceived ==
    (via = "loop" /\ Len(results) >= 1
        /\ (~Truthy(row.patient_name) \/ ~Truthy(row.patient_dob))) =>
        /\ ~results[1].success
        /\ results[1].issues = <<"Need patient_name+dob OR member_id to open case">>
        /\ trace[3] = "REFERRAL_RECEIVED"
        /\ pc = PcDone

\* C22: every stage agent result with success = false carries at least one
\* issue and a non-empty actions_add, so a run that ended on a failed result
\* has a remediation action in context.actions.
C22_FailureCarriesRemediation ==
    /\ \A i \in 1..Len(results) :
           ~results[i].success =>
               /\ results[i].issues # <<>>
               /\ results[i].data.actions_add # <<>>
    /\ (pc = PcDone /\ results # <<>> /\ ~Last(results).success) => ctx.actions # <<>>

\* C8: when normalized.auth.required is False, AuthApprovedAgent succeeds with
\* auth_approved = True and next state READY_TO_SCHEDULE, whatever the
\* authorization number, dates and status are.
C8_AuthNotRequiredAutoApproves ==
    (via = "loop" /\ Len(results) >= 6
        /\ Get(Get(ctx.normalized, "auth"), "required") = Bool(FALSE)) =>
        /\ results[6].success
        /\ results[6].data.decisions["auth_approved"] = TRUE
        /\ results[6].data.state = "READY_TO_SCHEDULE"
        /\ trace[8] = "READY_TO_SCHEDULE"

\* AuthApproved ran on a case that needs no authorization, has no
\* authorization number or dates and whose dataset status is DENIED.
C8_Witness ==
    /\ via = "loop" /\ Len(results) >= 6
    /\ Get(Get(ctx.normalized, "auth"), "required") = Bool(FALSE)
    /\ row.auth_number = NoneV /\ row.auth_start_date = NoneV /\ row.auth_end_date = NoneV
    /\ row.auth_status = Str("DENIED")
    /\ results[6].success

\* The run of run_for_row started at REFERRAL_RECEIVED and came to its
\* seventh agent, ReadyToScheduleAgent.
ReachedReadyToSchedule ==
    via = "loop" /\ trace # <<>> /\ trace[1] = "REFERRAL_RECEIVED" /\ Len(results) = NumAgents

PriorDecisions ==
    {"referral_received", "intake_complete", "assessment_complete",
     "eligibility_verified", "auth_planned", "auth_approved"}

\* C27: in a run from REFERRAL_RECEIVED with empty decisions that reaches
\* ReadyToScheduleAgent, the merged context has eligibility.status = verified
\* and, when auth.required is true, auth.status = approved; the agent's issues
\* are at most "Need patient phone or address", ready_to_schedule is false
\* only when the patient has neither phone nor address, and ready_to_schedule
\* true implies the six earlier decisions are all true.
C27_ReadyToScheduleSeesVerifiedAndApproved ==
    ReachedReadyToSchedule =>
        LET normalized == ctx.normalized
            patient == OrV(Get(normalized, "patient"), EmptyDict)
            auth == OrV(Get(normalized, "auth"), EmptyDict)
        IN /\ Get(OrV(Get(normalized, "eligibility"), EmptyDict), "status") = Str("verified")
           /\ Get(auth, "required") = Bool(TRUE) => Get(auth, "status") = Str("approved")
           /\ \A i \in 1..Len(results[NumAgents].issues) :
                  results[NumAgents].issues[i] = "Need patient phone or address"
           /\ "ready_to_schedule" \in DOMAIN ctx.decisions
           /\ ~ctx.decisions["ready_to_schedule"] =>
                  ~Truthy(Get(patient, "phone")) /\ ~Truthy(Get(patient, "address"))
           /\ ctx.decisions["ready_to_schedule"] =>
                  \A k \in PriorDecisions : k \in DOMAIN ctx.decisions /\ ctx.decisions[k]

\* A run with authorization required came to ReadyToScheduleAgent and was
\* found ready to schedule.
C27_Witness ==
    /\ ReachedReadyToSchedule
    /\ Get(Get(ctx.normalized, "auth"), "required") = Bool(TRUE)
    /\ ctx.decisions["ready_to_schedule"]

-----------------------------------------------------------------------------
(***************************************************************************)
(* Part III.  The merge engine on its own: result payloads applied to a    *)
(* context one after the other, and one payload applied twice.             *)
(***************************************************************************)
\* Top-level keys of context["normalized"] the patches write: the four
\* nested entries apply_agent_result re-derives, a nested entry it leaves
\* alone, and flat keys.
NestedNames == {"patient", "payer", "referral", "assessment"}
FieldNames == NestedNames \cup {"auth", "patient_name", "member_id"}
SubKeys == {"name", "member_id"}
Scalars == {NoneV, Str("A"), Str("B")}

\* A value a patch gives a field: a scalar, or a map with one sub-key.
PatchValues == Scalars \cup {Dict([j \in {sk} |-> v]) : sk \in SubKeys, v \in Scalars}

FieldPatch(f, v) == Dict([k \in {f} |-> v])

\* The field a one-field patch sets, and the value it gives it.
PatchField(patch) == CHOOSE k \in DOMAIN patch.d : TRUE
PatchValue(patch) == patch.d[PatchField(patch)]
SubKeyOf(v) == CHOOSE k \in DOMAIN v.d : TRUE

SampleAction == Action("MISSING_INFO", "Intake", <<"payer.name">>)

\* Payloads: a bare normalized_patch, or a full agent payload with state,
\* decisions and a follow-up action.
Payloads(patch) ==
    {Data("", <<>>, patch, <<>>),
     Data("INTAKE_COMPLETE", [k \in {"referral_received"} |-> TRUE], patch, <<SampleAction>>)}

SampleRow ==
    [referral_id |-> Str("REF-1"), patient_name |-> Str("Ann"), patient_dob |-> NoneV,
     payer |-> Str("Aetna"), auth_required |-> Str("N"), auth_status |-> NoneV,
     auth_number |-> NoneV, auth_start_date |-> NoneV, auth_end_date |-> NoneV,
     use_case |-> NoneV, service_type |-> Str("ECM"), scheduled_date |-> NoneV,
     referral_received_date |-> NoneV, first_outreach_date |-> NoneV,
     patient_address |-> NoneV, patient_city |-> Str("Oakland"), patient_zip |-> NoneV,
     patient_phone |-> NoneV]

\* Contexts a merge can meet: the fresh context of run_for_row, the context
\* after the row was normalized into it, and a context holding the flat keys
\* NormalizedSummaryAgent returns in data["normalized"].
PriorContexts ==
    {NewContext("REFERRAL_RECEIVED"),
     apply_agent_result(NewContext("REFERRAL_RECEIVED"),
                        Data("", <<>>, normalize_from_row(SampleRow), <<>>)),
     apply_agent_result(NewContext("REFERRAL_RECEIVED"),
                        [Data("", <<>>, EmptyDict, <<>>) EXCEPT !.normalized =
                            Dict([k \in {"patient_name", "member_id"} |->
                                    IF k = "patient_name" THEN Str("Zed") ELSE Str("M-9")])])}

InitMerge ==
    /\ mprior \in PriorContexts
    /\ mctx = mprior
    /\ \E f1 \in FieldNames, f2 \in FieldNames, v1 \in PatchValues, v2 \in PatchValues :
          \E d1 \in Payloads(FieldPatch(f1, v1)) :
              mdata = <<d1, Data("", <<>>, FieldPatch(f2, v2), <<>>)>>
    /\ mlog = <<>>
    /\ mpc = "init"

\* apply_agent_result(context, D1)
ApplyFirst ==
    /\ mpc = "init"
    /\ mctx' = apply_agent_result(mctx, mdata[1])
    /\ mlog' = Append(mlog, mctx')
    /\ mpc' = "p1"
    /\ UNCHANGED <<mprior, mdata>>

\* apply_agent_result(context, D2) after D1
ApplySecond ==
    /\ mpc = "p1"
    /\ mctx' = apply_agent_result(mctx, mdata[2])
    /\ mlog' = Append(mlog, mctx')
    /\ mpc' = "p1p2"
    /\ UNCHANGED <<mprior, mdata>>

\* apply_agent_result(context, D1) a second time
ApplyAgain ==
    /\ mpc = "p1"
    /\ mctx' = apply_agent_result(mctx, mdata[1])
    /\ mlog' = Append(mlog, mctx')
    /\ mpc' = "twice"
    /\ UNCHANGED <<mprior, mdata>>

P1 == mdata[1].normalized_patch
P2 == mdata[2].normalized_patch
SameField == PatchField(P1) = PatchField(P2)
BothScalar == ~IsDict(PatchValue(P1)) /\ ~IsDict(PatchValue(P2))
DisjointSubKeys ==
    /\ IsDict(PatchValue(P1)) /\ IsDict(PatchValue(P2))
    /\ SubKeyOf(PatchValue(P1)) # SubKeyOf(PatchValue(P2))

\* The entry of context["normalized"] the patches wrote.
Merged == Get(mctx.normalized, PatchField(P2))

\* C9 as claimed, for every field name: P1 then P2 on the same scalar field
\* leaves P2's value; P1 then P2 on disjoint sub-keys of the same map field
\* leaves both sub-keys with the values the patches gave them.
C9_PatchPrecedenceEveryField ==
    (mpc = "p1p2" /\ SameField) =>
        /\ BothScalar => Merged = PatchValue(P2)
        /\ DisjointSubKeys =>
              /\ IsDict(Merged)
              /\ SubKeyOf(PatchValue(P1)) \in DOMAIN Merged.d
              /\ SubKeyOf(PatchValue(P2)) \in DOMAIN Merged.d
              /\ Get(Merged, SubKeyOf(PatchValue(P1))) = PatchValue(P1).d[SubKeyOf(PatchValue(P1))]
              /\ Get(Merged, SubKeyOf(PatchValue(P2))) = PatchValue(P2).d[SubKeyOf(PatchValue(P2))]

\* C9 amended: the scalar rule holds for every field that is not one of the
\* four nested entries the compatibility step re-derives; on a map field
\* both sub-keys are always present, and each keeps the value its patch gave
\* it when the field is not one of those four or the value is non-empty.
C9_PatchPrecedence ==
    (mpc = "p1p2" /\ SameField) =>
        /\ (BothScalar /\ PatchField(P2) \notin NestedNames) => Merged = PatchValue(P2)
        /\ DisjointSubKeys =>
              /\ IsDict(Merged)
              /\ \A p \in {PatchValue(P1), PatchValue(P2)} :
                    /\ SubKeyOf(p) \in DOMAIN Merged.d
                    /\ (PatchField(P2) \notin NestedNames \/ Truthy(p.d[SubKeyOf(p)]))
                          => Get(Merged, SubKeyOf(p)) = p.d[SubKeyOf(p)]

\* Both shapes of the claim happen: a flat scalar field overwritten by a
\* different value, and two sub-keys of auth set by different patches.
C9_Witness ==
    /\ mpc = "p1p2" /\ SameField
    /\ \/ BothScalar /\ PatchField(P2) = "patient_name"
          /\ PatchValue(P1) = Str("A") /\ Merged = Str("B")
       \/ DisjointSubKeys /\ PatchField(P2) = "auth"
          /\ Get(Merged, "name") = Str("A") /\ Get(Merged, "member_id") = Str("B")

\* C10 as claimed: applying the same result data twice gives the context
\* that applying it once gives (decisions, normalized, actions and state).
C10_ReplayIdempotent ==
    mpc = "twice" =>
        /\ mlog[2].decisions = mlog[1].decisions
        /\ mlog[2].normalized = mlog[1].normalized
        /\ mlog[2].state = mlog[1].state
        /\ mlog[2].actions = mlog[1].actions

\* C10 amended: decisions, normalized and state are the same after the
\* second application; actions holds actions_add once more (the list is
\* extended again), so the contexts are equal exactly when actions_add is
\* empty.
C10_ReplayIdempotentButActions ==
    mpc = "twice" =>
        /\ mlog[2].decisions = mlog[1].decisions
        /\ mlog[2].normalized = mlog[1].normalized
        /\ mlog[2].state = mlog[1].state
        /\ mlog[2].actions = mlog[1].actions \o mdata[1].actions_add
        /\ (mlog[2] = mlog[1]) <=> (mdata[1].actions_add = <<>>)

\* A payload with state, decisions, a patch and one action was applied twice.
C10_Witness ==
    /\ mpc = "twice"
    /\ mdata[1].actions_add = <<SampleAction>>
    /\ mlog[2].actions = <<SampleAction, SampleAction>>
    /\ mlog[2].state = "INTAKE_COMPLETE"
    /\ Truthy(mdata[1].normalized_patch)

\* The flat key and the sub-key of the nested entry that name the same datum.
AliasPairs ==
    {<<"patient_name", "patient", "name">>,
     <<"member_id", "payer", "member_id">>,
     <<"date_of_birth", "patient", "dob">>}

FlatAlias(context, pair) == Get(context.normalized, pair[1])
NestedAlias(context, pair) == Get(Get(context.normalized, pair[2]), pair[3])

\* C20: after every apply_agent_result merge, whenever the flat key or its
\* nested alias is set (patient_name / patient.name, member_id /
\* payer.member_id, date_of_birth / patient.dob), both hold the same value,
\* also when a later patch changes one shape after an earlier merge set the
\* other.
C20_FlatAndNestedAliasesAgree ==
    \A i \in 1..Len(mlog) : \A pair \in AliasPairs :
        (Truthy(FlatAlias(mlog[i], pair)) \/ Truthy(NestedAlias(mlog[i], pair))) =>
            FlatAlias(mlog[i], pair) = NestedAlias(mlog[i], pair)

\* P2 gives the field a value of the other shape than the value P1 gave it.
ShapeChange == SameField /\ (IsDict(PatchValue(P1)) # IsDict(PatchValue(P2)))

MergeIdle ==
    /\ mctx = NewContext("REFERRAL_RECEIVED") /\ mprior = NewContext("REFERRAL_RECEIVED")
    /\ mdata = <<>> /\ mlog = <<>> /\ mpc = "idle"

JourneyIdle ==
    /\ runtime = <<>> /\ journey = <<>> /\ sched = <<>> /\ now = 0
    /\ lastOp = "init" /\ twin = <<>> /\ manual = 0

InitPipeline == InitRun({"REFERRAL_RECEIVED"}) /\ MergeIdle /\ JourneyIdle /\ ExtIdle

NextPipeline ==
    \/ Normalize /\ UNCHANGED <<mergeVars, journeyVars, twin, extVars>>
    \/ LoopStep /\ UNCHANGED <<mergeVars, journeyVars, twin, extVars>>
    \/ run_all /\ UNCHANGED <<mergeVars, journeyVars, twin, extVars>>

SpecPipeline == InitPipeline /\ [][NextPipeline]_vars

\* The same run entered with a context in any pipeline state (a case that is
\* run again after it advanced).  The rows vary in what the first agents read.
CoreRows ==
    {r \in Rows : /\ r.auth_status = NoneV /\ r.auth_number = NoneV
                  /\ r.use_case = NoneV /\ r.patient_phone = NoneV
                  /\ r.auth_start_date # NoneV /\ r.auth_end_date # NoneV}

InitAnyStart ==
    /\ InitRun({PipelineStates[i] : i \in 1..Len(PipelineStates)})
    /\ row \in CoreRows
    /\ MergeIdle /\ JourneyIdle /\ ExtIdle

SpecAnyStart == InitAnyStart /\ [][NextPipeline]_vars

InitMergeOnly == InitMerge /\ PipeIdle /\ JourneyIdle /\ ExtIdle

NextMerge ==
    \/ ApplyFirst /\ UNCHANGED <<pipeVars, journeyVars, twin, extVars>>
    \/ ApplySecond /\ UNCHANGED <<pipeVars, journeyVars, twin, extVars>>
    \/ ApplyAgain /\ UNCHANGED <<pipeVars, journeyVars, twin, extVars>>

SpecMerge == InitMergeOnly /\ [][NextMerge]_vars
-----------------------------------------------------------------------------
(***************************************************************************)
(* Part IV.  backend/app.py in file mode (no database).  The journey       *)
(* store is journey_overrides.json, the scheduling store is                *)
(* scheduling_overrides.json, `runtime` is referrals_runtime.json.  A      *)
(* handler reads the clock once: `now` is the number of seconds since the  *)
(* first request.  Referral ids are the numbers of "REF-<n>".  Columns of  *)
(* a referral that neither store nor the autopilot reads are left out, and *)
(* so are the note of an event, the date of a scheduling decision and the  *)
(* updated_at stamp of both stores, which nothing reads.                   *)
(***************************************************************************)
AUTOPILOT_HOME_ASSESSMENT_DELAY_SEC == 25
AUTOPILOT_READY_TO_BILL_DELAY_SEC == 25
AUTOPILOT_COMPLETE_DELAY_SEC == 25

MaxCases == 2
MaxTime == 75
MaxManual == 1

\* Seconds that pass between two requests.
ClockSteps == {25}

\* The stage names the autopilot and the scheduler record.
JourneyStages ==
    {"INTAKE_RECEIVED", "DOCS_COMPLETED", "AUTH_PENDING", "HOME_ASSESSMENT_SCHEDULED",
     "HOME_ASSESSMENT_COMPLETED", "SCHEDULED", "READY_TO_BILL", "SERVICE_COMPLETED"}

\* caregivers_synthetic.csv.
Caregivers ==
    <<[caregiver_id |-> "CG-1", active |-> "Y", city |-> "Oakland",
       employment_type |-> "Part-Time", availability |-> "Weekdays"],
      [caregiver_id |-> "CG-2", active |-> "Y", city |-> "Fremont",
       employment_type |-> "Contract", availability |-> "Limited"],
      [caregiver_id |-> "CG-3", active |-> "N", city |-> "Oakland",
       employment_type |-> "Full-Time", availability |-> "Flexible"]>>

Cities == {"Oakland", "Fremont"}

\* The stages an operator advances a referral to, and the scheduling
\* requests an operator sends.
AdvanceStages == {"HOME_ASSESSMENT_COMPLETED", "SCHEDULED", "SERVICE_COMPLETED"}
ApplyCaregivers == {"CG-1"}
ApplyStatuses == {"SCHEDULED", "COMPLETED"}

\* auth_required and auth_status of a new referral (template row or PDF).
AuthProfiles == {<<"N", "NOT_REQUIRED">>, <<"Y", "PENDING">>, <<"Y", "APPROVED">>}

PdfRationale == "Ingested from PDF via LandingAI: referral.pdf"
SimRationale(auth_stat) ==
    IF auth_stat = "PENDING"
    THEN "New intake; authorization pending - follow up with payer."
    ELSE "New intake; gather required documents to proceed."

\* A row of referrals_synthetic.csv; intake needs the file to be non-empty.
BaseReferral ==
    [referral_id |-> 1001, intake_source |-> "", agent_rationale |-> "Routine follow-up.",
     insurance_active |-> "Y", auth_required |-> "N", auth_status |-> "NOT_REQUIRED",
     docs_complete |-> "Y", home_assessment_done |-> "Y",
     schedule_status |-> "NOT_SCHEDULED", service_complete |-> "N", ready_to_bill |-> "N",
     patient_city |-> "Oakland", assigned_caregiver_id |-> ""]

BaseReferrals == <<BaseReferral>>

World == [runtime |-> runtime, journey |-> journey, sched |-> sched]

Upsert(f, k, v) == [x \in DOMAIN f \cup {k} |-> IF x = k THEN v ELSE f[x]]

Event(stage, at, source) == [stage |-> stage, at |-> at, source |-> source]

\* entry.get("events") of a referral, [] when the store has no entry.
EventsOf(J, rid) == IF rid \in DOMAIN J THEN J[rid].events ELSE <<>>

Stages(events) == [i \in 1..Len(events) |-> events[i].stage]

\* has_stage: the first event of the stage, 0 when there is none.
has_stage(events, st) ==
    IF \E i \in 1..Len(events) : events[i].stage = st
    THEN CHOOSE i \in 1..Len(events) :
             /\ events[i].stage = st
             /\ \A j \in 1..(i - 1) : events[j].stage # st
    ELSE 0

\* Mutant: the event is appended whether or not the stage is in the log.
_record_journey_event_append(J, rid, st, source, t) ==
    Upsert(J, rid, [events |-> Append(EventsOf(J, rid), Event(st, t, source)),
                    current_stage |-> st])

_record_journey_event(J, rid, st, source, t) ==
    LET events == EventsOf(J, rid)
    IN IF has_stage(events, st) # 0
       THEN Upsert(J, rid, [events |-> events, current_stage |-> st])
       ELSE Upsert(J, rid, [events |-> Append(events, Event(st, t, source)),
                            current_stage |-> st])

_apply_scheduling_overrides(S, r) ==
    IF r.referral_id \in DOMAIN S
    THEN LET o == S[r.referral_id]
         IN [r EXCEPT !.schedule_status =
                          IF o.schedule_status # "" THEN o.schedule_status ELSE @,
                      !.assigned_caregiver_id =
                          IF o.assigned_caregiver_id # "" THEN o.assigned_caregiver_id ELSE @]
    ELSE r

\* The loop of _apply_journey_overrides: events in order, later events win.
RECURSIVE ApplyEvents(_, _)
ApplyEvents(r, events) ==
    IF events = <<>> THEN r
    ELSE LET stage == Head(events).stage
             r1 == CASE stage = "DOCS_COMPLETED" -> [r EXCEPT !.docs_complete = "Y"]
                     [] stage = "HOME_ASSESSMENT_COMPLETED" ->
                            [r EXCEPT !.home_assessment_done = "Y"]
                     [] stage = "READY_TO_BILL" -> [r EXCEPT !.ready_to_bill = "Y"]
                     [] stage = "SERVICE_COMPLETED" ->
                            [r EXCEPT !.service_complete = "Y", !.schedule_status = "COMPLETED"]
                     [] OTHER -> r
         IN ApplyEvents(r1, Tail(events))

_apply_journey_overrides(J, r) == ApplyEvents(r, EventsOf(J, r.referral_id))

ApplyOverrides(W, r) == _apply_journey_overrides(W.journey, _apply_scheduling_overrides(W.sched, r))

_load_runtime_referrals(W) == [i \in 1..Len(W.runtime) |-> ApplyOverrides(W, W.runtime[i])]

_load_referrals_csv(W) ==
    _load_runtime_referrals(W) \o [i \in 1..Len(BaseReferrals) |-> ApplyOverrides(W, BaseReferrals[i])]

Max(a, b) == IF a >= b THEN a ELSE b

\* "part" in et, "contract" in et, "limited" in av on the values of the file.
_caregiver_capacity(c) ==
    LET base == CASE c.employment_type = "Part-Time" -> 1
                  [] c.employment_type = "Contract" -> 2
                  [] OTHER -> 3
    IN IF c.availability = "Limited" THEN Max(1, base - 1) ELSE base

\* The number of SCHEDULED decisions of a caregiver whose referral is known
\* and not complete (ref_by_id keeps the last row of an id).
_compute_caregiver_load(S, referrals, cg) ==
    Cardinality({rid \in DOMAIN S :
        /\ S[rid].assigned_caregiver_id = cg
        /\ cg # ""
        /\ S[rid].schedule_status = "SCHEDULED"
        /\ \E i \in 1..Len(referrals) :
               /\ referrals[i].referral_id = rid
               /\ \A j \in (i + 1)..Len(referrals) : referrals[j].referral_id # rid
               /\ referrals[i].service_complete # "Y"})

\* Mutant: the first active caregiver of the city, whatever its load.
_select_available_caregiver_any(referral, S, referrals) ==
    LET ok(i) == Caregivers[i].active = "Y"
        same_city == {i \in 1..Len(Caregivers) : ok(i) /\ Caregivers[i].city = referral.patient_city}
        any_city == {i \in 1..Len(Caregivers) : ok(i)}
        first(I) == CHOOSE i \in I : \A j \in I : i <= j
    IN IF same_city # {} THEN Caregivers[first(same_city)].caregiver_id
       ELSE IF any_city # {} THEN Caregivers[first(any_city)].caregiver_id
       ELSE ""

\* The caregiver id, "" when no caregiver has room.
_select_available_caregiver(referral, S, referrals) ==
    LET ok(i) == /\ Caregivers[i].active = "Y"
                 /\ _compute_caregiver_load(S, referrals, Caregivers[i].caregiver_id)
                        < _caregiver_capacity(Caregivers[i])
        same_city == {i \in 1..Len(Caregivers) : ok(i) /\ Caregivers[i].city = referral.patient_city}
        any_city == {i \in 1..Len(Caregivers) : ok(i)}
        first(I) == CHOOSE i \in I : \A j \in I : i <= j
    IN IF same_city # {} THEN Caregivers[first(same_city)].caregiver_id
       ELSE IF any_city # {} THEN Caregivers[first(any_city)].caregiver_id
       ELSE ""

\* Mutant: every case is ticked.
_autopilot_should_run_any(referral) == TRUE

\* "ingested from pdf" in rationale or "demo" in rationale, on the rationales
\* the intake handlers write.
_autopilot_should_run(referral) ==
    \/ referral.intake_source \in {"PDF", "SIMULATED"}
    \/ referral.agent_rationale = PdfRationale

\* Mutant: an event counts as aged as soon as it is recorded.
aged_at_once(at, t, delay) == t >= at

\* Mutant: no delay ever elapses.
aged_never(at, t, delay) == FALSE

\* (datetime.utcnow() - at).total_seconds() >= delay
aged(at, t, delay) == t - at >= delay

\* One tick for one referral: `referral` is the row as loaded at the start of
\* _autopilot_tick_all, W the stores as they are now, t the clock.
\* `failing` is the store whose writes raise during the tick ("none" when
\* both work): _record_journey_event swallows the exception of a failed
\* journey write and returns, a failed _save_scheduling_overrides ends the
\* tick in its `except Exception: return`.
tick_for_referral_with(referral, W, t, failing) ==
    LET rid == referral.referral_id
        rec(J, st) == IF failing = "journey" THEN J
                      ELSE _record_journey_event(J, rid, st, "autopilot", t)
        insurance_ok == referral.insurance_active = "Y"
        auth_required == referral.auth_required = "Y"
    IN
    IF ~_autopilot_should_run(referral) THEN W
    ELSE IF referral.service_complete = "Y"
    THEN [W EXCEPT !.journey = rec(@, "SERVICE_COMPLETED")]
    ELSE
    LET J1 == rec(W.journey, "INTAKE_RECEIVED")
        J2 == IF referral.docs_complete # "Y" THEN rec(J1, "DOCS_COMPLETED") ELSE J1
        events2 == EventsOf(J2, rid)
        has == has_stage(events2, "HOME_ASSESSMENT_SCHEDULED")
    IN
    IF insurance_ok /\ auth_required /\ referral.auth_status # "APPROVED"
    THEN [W EXCEPT !.journey = rec(J2, "AUTH_PENDING")]
    ELSE IF has = 0
    THEN [W EXCEPT !.journey = rec(J2, "HOME_ASSESSMENT_SCHEDULED")]
    ELSE
    LET J3 == IF /\ referral.home_assessment_done # "Y"
                 /\ aged(events2[has].at, t, AUTOPILOT_HOME_ASSESSMENT_DELAY_SEC)
              THEN rec(J2, "HOME_ASSESSMENT_COMPLETED")
              ELSE J2
        caregiver_id ==
            IF referral.schedule_status = "NOT_SCHEDULED" /\ insurance_ok
            THEN _select_available_caregiver(referral, W.sched,
                     _load_referrals_csv([W EXCEPT !.journey = J3]))
            ELSE ""
        S4 == IF caregiver_id # "" /\ failing # "scheduling"
              THEN Upsert(W.sched, rid, [schedule_status |-> "SCHEDULED",
                                         assigned_caregiver_id |-> caregiver_id])
              ELSE W.sched
        J4 == IF caregiver_id # "" THEN rec(J3, "SCHEDULED") ELSE J3
        events4 == EventsOf(J4, rid)
        sched_ev == has_stage(events4, "SCHEDULED")
        rb_ev == has_stage(events4, "READY_TO_BILL")
        J5 == IF sched_ev # 0 /\ aged(events4[sched_ev].at, t, AUTOPILOT_READY_TO_BILL_DELAY_SEC)
              THEN rec(J4, "READY_TO_BILL")
              ELSE J4
        J6 == IF rb_ev # 0 /\ aged(events4[rb_ev].at, t, AUTOPILOT_COMPLETE_DELAY_SEC)
              THEN rec(J5, "SERVICE_COMPLETED")
              ELSE J5
    IN IF caregiver_id # "" /\ failing = "scheduling"
       THEN [W EXCEPT !.journey = J3]
       ELSE [W EXCEPT !.sched = S4,
                      !.journey = IF sched_ev # 0 /\ referral.schedule_status = "SCHEDULED"
                                  THEN J6 ELSE J4]

_autopilot_tick_for_referral(referral, W, t) ==
    tick_for_referral_with(referral, W, t, "none")

\* The loop of _autopilot_tick_all over the rows loaded before the loop.
RECURSIVE tick_rows_with(_, _, _, _)
tick_rows_with(rows, W, t, failing) ==
    IF rows = <<>> THEN W
    ELSE tick_rows_with(Tail(rows), tick_for_referral_with(Head(rows), W, t, failing),
                        t, failing)

TickRows(rows, W, t) == tick_rows_with(rows, W, t, "none")

\* Tick every runtime referral, then reload the rows and save them with the
\* overrides applied.
tick_all_with(W, t, failing) ==
    IF W.runtime = <<>> THEN W
    ELSE LET W1 == tick_rows_with(_load_runtime_referrals(W), W, t, failing)
         IN [W1 EXCEPT !.runtime = _load_runtime_referrals(W1)]

\* Mutant: the tick records its events and leaves the scheduling store as
\* it found it.
tick_all_unsaved(W, t) == [tick_all_with(W, t, "none") EXCEPT !.sched = W.sched]

_autopilot_tick_all(W, t) == tick_all_with(W, t, "none")

\* max(n over the ids, 1000) + 1
_next_referral_id(ids) ==
    1 + (CHOOSE n \in ids \cup {1000} : \A m \in ids \cup {1000} : m <= n)

RuntimeIds(W) == {W.runtime[i].referral_id : i \in 1..Len(W.runtime)}

ExistingIds(W) ==
    {BaseReferrals[i].referral_id : i \in 1..Len(BaseReferrals)} \cup RuntimeIds(W)

NewReferral(rid, city, auth, rationale) ==
    [referral_id |-> rid, intake_source |-> "", agent_rationale |-> rationale,
     insurance_active |-> "Y", auth_required |-> auth[1], auth_status |-> auth[2],
     docs_complete |-> "N", home_assessment_done |-> "N",
     schedule_status |-> "NOT_SCHEDULED", service_complete |-> "N", ready_to_bill |-> "N",
     patient_city |-> city, assigned_caregiver_id |-> ""]

\* The file-mode tail of both intake handlers: the new row goes in front of
\* the loaded rows, the rows are saved, the autopilot ticks.
IntakeResult(W, new_row, t) ==
    _autopilot_tick_all([W EXCEPT !.runtime = <<new_row>> \o _load_runtime_referrals(W)], t)

\* What every handler leaves behind: the stores, and the record of the call.
Handled(op, W1) ==
    /\ runtime' = W1.runtime
    /\ journey' = W1.journey
    /\ sched' = W1.sched
    /\ lastOp' = op

\* POST /api/v1/intake/from-pdf with one referral document.
intake_from_pdf ==
    /\ Len(runtime) < MaxCases
    /\ \E city \in Cities, auth \in AuthProfiles :
        Handled("intake_from_pdf",
            IntakeResult(World,
                NewReferral(_next_referral_id(ExistingIds(World)), city, auth, PdfRationale),
                now))
    /\ UNCHANGED <<now, manual>>

\* POST /api/v1/intake/simulate.
simulate_referral_intake ==
    /\ Len(runtime) < MaxCases
    /\ \E city \in {"Oakland"}, needs_auth \in BOOLEAN :
        LET auth == IF needs_auth THEN <<"Y", "PENDING">> ELSE <<"N", "NOT_REQUIRED">>
        IN Handled("simulate_referral_intake",
               IntakeResult(World,
                   NewReferral(_next_referral_id(ExistingIds(World)), city, auth,
                               SimRationale(auth[2])),
                   now))
    /\ UNCHANGED <<now, manual>>

\* GET referrals, journey board, ops summary: each starts with a tick.
AutopilotTick ==
    /\ Handled("tick", _autopilot_tick_all(World, now))
    /\ UNCHANGED <<now, manual>>

\* POST /api/v1/referrals/{id}/journey/advance, file mode.
advance_referral_journey ==
    /\ manual < MaxManual
    /\ \E rid \in RuntimeIds(World), st \in AdvanceStages :
        Handled("advance_referral_journey",
            [World EXCEPT !.journey =
                Upsert(@, rid, [events |-> Append(EventsOf(@, rid), Event(st, now, "ui")),
                                current_stage |-> st])])
    /\ manual' = manual + 1
    /\ UNCHANGED now

\* POST /api/v1/scheduling/apply, file mode.
apply_schedule ==
    /\ manual < MaxManual
    /\ \E rid \in RuntimeIds(World), caregiver_id \in ApplyCaregivers, status \in ApplyStatuses :
        LET S1 == Upsert(sched, rid, [schedule_status |-> status,
                                      assigned_caregiver_id |-> caregiver_id])
            J1 == CASE status = "SCHEDULED" ->
                           _record_journey_event(journey, rid, "SCHEDULED", "scheduler", now)
                    [] status = "COMPLETED" ->
                           _record_journey_event(journey, rid, "SERVICE_COMPLETED", "scheduler", now)
                    [] OTHER -> journey
        IN Handled("apply_schedule", [World EXCEPT !.sched = S1, !.journey = J1])
    /\ manual' = manual + 1
    /\ UNCHANGED now

\* Time passes between two requests.
ClockAdvance ==
    /\ \E d \in ClockSteps : now + d <= MaxTime /\ now' = now + d
    /\ lastOp' = "clock"
    /\ UNCHANGED <<runtime, journey, sched, manual>>

InitJourney ==
    /\ runtime = <<>> /\ journey = <<>> /\ sched = <<>> /\ now = 0 /\ manual = 0
    /\ lastOp = "init" /\ twin = <<>>
    /\ PipeIdle /\ MergeIdle /\ ExtIdle

\* The autopilot left to itself: referrals arrive, requests tick, time passes.
Next ==
    \/ intake_from_pdf /\ UNCHANGED <<pipeVars, mergeVars, twin, extVars>>
    \/ simulate_referral_intake /\ UNCHANGED <<pipeVars, mergeVars, twin, extVars>>
    \/ AutopilotTick /\ UNCHANGED <<pipeVars, mergeVars, twin, extVars>>
    \/ ClockAdvance /\ UNCHANGED <<pipeVars, mergeVars, twin, extVars>>

Spec == InitJourney /\ [][Next]_vars

\* The same with the operator's requests.
NextOps ==
    \/ intake_from_pdf /\ UNCHANGED <<pipeVars, mergeVars, twin, extVars>>
    \/ simulate_referral_intake /\ UNCHANGED <<pipeVars, mergeVars, twin, extVars>>
    \/ AutopilotTick /\ UNCHANGED <<pipeVars, mergeVars, twin, extVars>>
    \/ advance_referral_journey /\ UNCHANGED <<pipeVars, mergeVars, twin, extVars>>
    \/ apply_schedule /\ UNCHANGED <<pipeVars, mergeVars, twin, extVars>>
    \/ ClockAdvance /\ UNCHANGED <<pipeVars, mergeVars, twin, extVars>>

SpecOps == InitJourney /\ [][NextOps]_vars

-----------------------------------------------------------------------------
(***************************************************************************)
(* Two runs of the same case.  `twin` is a second deployment that took in  *)
(* the same referral at the same instant, with the same caregiver file and *)
(* an empty scheduling store; its requests arrive at other times.          *)
(***************************************************************************)
TwinWorld == twin.world

EmptyWorld == [runtime |-> <<>>, journey |-> <<>>, sched |-> <<>>]

InitTwin ==
    /\ runtime = <<>> /\ journey = <<>> /\ sched = <<>> /\ now = 0 /\ manual = 0
    /\ lastOp = "init"
    /\ twin = [world |-> EmptyWorld, now |-> 0]
    /\ PipeIdle /\ MergeIdle /\ ExtIdle

\* The referral arrives in both deployments (intake_from_pdf in each).
TwinIntake ==
    /\ runtime = <<>>
    /\ \E city \in Cities, auth \in AuthProfiles :
        Handled("intake_from_pdf",
            IntakeResult(World,
                NewReferral(_next_referral_id(ExistingIds(World)), city, auth, PdfRationale),
                now))
    /\ twin' = [world |-> [runtime |-> runtime', journey |-> journey', sched |-> sched'],
                now |-> now]
    /\ UNCHANGED <<now, manual>>

TwinTick ==
    /\ TwinWorld.runtime # <<>>
    /\ twin' = [twin EXCEPT !.world = _autopilot_tick_all(@, twin.now)]

TwinClock ==
    /\ TwinWorld.runtime # <<>>
    /\ \E d \in ClockSteps : twin.now + d <= MaxTime /\ twin' = [twin EXCEPT !.now = @ + d]

NextTwin ==
    \/ TwinIntake /\ UNCHANGED <<pipeVars, mergeVars, extVars>>
    \/ (runtime # <<>> /\ AutopilotTick) /\ UNCHANGED <<pipeVars, mergeVars, twin, extVars>>
    \/ (runtime # <<>> /\ ClockAdvance) /\ UNCHANGED <<pipeVars, mergeVars, twin, extVars>>
    \/ TwinTick /\ UNCHANGED <<pipeVars, mergeVars, journeyVars, extVars>>
    \/ TwinClock /\ UNCHANGED <<pipeVars, mergeVars, journeyVars, extVars>>

SpecTwin == InitTwin /\ [][NextTwin]_vars

-----------------------------------------------------------------------------
(***************************************************************************)
(* Properties of the journey store and the autopilot.                      *)
(***************************************************************************)
NoRepeat(seq) == \A i, j \in 1..Len(seq) : seq[i] = seq[j] => i = j

\* The handlers that run _autopilot_tick_all.
TickOps == {"tick", "intake_from_pdf", "simulate_referral_intake"}

\* The longest wait the autopilot imposes between two stages, summed.
Horizon ==
    AUTOPILOT_HOME_ASSESSMENT_DELAY_SEC + AUTOPILOT_READY_TO_BILL_DELAY_SEC
        + AUTOPILOT_COMPLETE_DELAY_SEC

AllStages(W) == [rid \in RuntimeIds(W) |-> Stages(EventsOf(W.journey, rid))]

\* No tick appends anything any more, now or however long one waits.
Settled(W, t) ==
    /\ AllStages(_autopilot_tick_all(W, t)) = AllStages(W)
    /\ AllStages(_autopilot_tick_all(W, t + Horizon)) = AllStages(W)

\* C3: whatever journey-recording requests were made (ticks, apply_schedule,
\* advance_referral_journey), no stage occurs twice in the event log of a
\* case.
C3_StageAtMostOnce ==
    \A rid \in DOMAIN journey : NoRepeat(Stages(journey[rid].events))

\* C4: a tick that follows a tick with nothing in between (no request, no
\* time passing) appends no event: every event log is the same after the
\* second tick as after the first.
C4_SecondTickAppendsNothing ==
    [][(lastOp \in TickOps /\ lastOp' = "tick") =>
           \A rid \in DOMAIN journey' : EventsOf(journey', rid) = EventsOf(journey, rid)]_vars

\* C5: two schedules of ticks on the same case, with different spacing, that
\* were both continued until no tick appends anything, end with the same
\* stages in the same order.
C5_SameTerminalLog ==
    (Settled(World, now) /\ Settled(TwinWorld, twin.now)) =>
        AllStages(World) = AllStages(TwinWorld)

\* C6: a tick on a case that is at SERVICE_COMPLETED (the event is in its log
\* and the row is marked service-complete) appends no event to the log of any
\* case and writes no scheduling decision.
C6_TickAtCompletedIsNoOp ==
    \A i \in 1..Len(runtime) :
        LET referral == _load_runtime_referrals(World)[i]
            W1 == _autopilot_tick_for_referral(referral, World, now)
        IN (/\ has_stage(EventsOf(journey, referral.referral_id), "SERVICE_COMPLETED") # 0
            /\ referral.service_complete = "Y")
           => /\ \A rid \in DOMAIN W1.journey : EventsOf(W1.journey, rid) = EventsOf(journey, rid)
              /\ W1.sched = sched

\* A request has ticked a case whose SERVICE_COMPLETED event was recorded at
\* an earlier time, next to a case that is still on its way.
C6_Witness ==
    /\ lastOp = "tick"
    /\ \E rid \in DOMAIN journey :
           LET events == journey[rid].events
               sc == has_stage(events, "SERVICE_COMPLETED")
           IN /\ sc # 0
              /\ events[sc].at < now
              /\ Len(events) = 7

-----------------------------------------------------------------------------
(***************************************************************************)
(* Part V.  CaregiverMatchingAgent.match_caregivers                        *)
(* (backend/src/services/agent_workflow.py).  No agent_config.yaml ships   *)
(* with the sources, so every weight is the default of its get_yaml call.  *)
(* A caregiver id is the number of "CG-<n>", its row number in the file.   *)
(* caregiver_name and language of a match are left out: they are copies.   *)
(***************************************************************************)
city_match_points == 40
exact_skill_points == 40
general_skill_points == 20
flexible_availability_points == 20
partial_availability_points == 10
min_match_score == 30
max_matches == 5
general_skills == <<"ECM", "HOME", "CARE">>

MaxCaregivers == 6

\* Python str operations, on TLC strings.
Lowercase == "abcdefghijklmnopqrstuvwxyz"
Uppercase == "ABCDEFGHIJKLMNOPQRSTUVWXYZ"
CharAt(s, i) == SubSeq(s, i, i)

UpperOf ==
    [c \in {CharAt(Lowercase, i) : i \in 1..Len(Lowercase)} |->
        CharAt(Uppercase, CHOOSE i \in 1..Len(Lowercase) : CharAt(Lowercase, i) = c)]

upper_char(c) == IF c \in DOMAIN UpperOf THEN UpperOf[c] ELSE c

\* s.upper()
RECURSIVE str_upper(_)
str_upper(s) ==
    IF s = "" THEN "" ELSE upper_char(CharAt(s, 1)) \o str_upper(SubSeq(s, 2, Len(s)))

\* s.strip()
RECURSIVE str_strip(_)
str_strip(s) ==
    IF s = "" THEN ""
    ELSE IF CharAt(s, 1) = " " THEN str_strip(SubSeq(s, 2, Len(s)))
    ELSE IF CharAt(s, Len(s)) = " " THEN str_strip(SubSeq(s, 1, Len(s) - 1))
    ELSE s

\* needle in hay
str_contains(needle, hay) ==
    \E i \in 0..(Len(hay) - Len(needle)) : SubSeq(hay, i + 1, i + Len(needle)) = needle

\* The city, skill and availability parts of the score, with their reasons.
city_part(referral, caregiver) ==
    IF str_strip(caregiver.city) = str_strip(referral.patient_city)
    THEN [points |-> city_match_points, reasons |-> <<"Same city">>]
    ELSE [points |-> 0, reasons |-> <<>>]

skill_part(referral, caregiver) ==
    IF str_contains(str_upper(str_strip(referral.use_case)), str_upper(caregiver.skills))
    THEN [points |-> exact_skill_points, reasons |-> <<"Has skill">>]
    ELSE IF \E i \in 1..Len(general_skills) :
                str_contains(general_skills[i], str_upper(caregiver.skills))
    THEN [points |-> general_skill_points, reasons |-> <<"Has general home care skills">>]
    ELSE [points |-> 0, reasons |-> <<>>]

availability_part(caregiver) ==
    IF str_contains("Flexible", caregiver.availability)
       \/ str_contains("Full-Time", caregiver.availability)
    THEN [points |-> flexible_availability_points, reasons |-> <<"Good availability">>]
    ELSE IF caregiver.availability # ""
    THEN [points |-> partial_availability_points, reasons |-> <<>>]
    ELSE [points |-> 0, reasons |-> <<>>]

\* match_details of one caregiver, its match_score filled in.
match_details(referral, caregiver) ==
    [caregiver_id |-> caregiver.caregiver_id,
     city |-> caregiver.city,
     skills |-> caregiver.skills,
     availability |-> caregiver.availability,
     match_score |-> city_part(referral, caregiver).points
                     + skill_part(referral, caregiver).points
                     + availability_part(caregiver).points,
     match_reasons |-> city_part(referral, caregiver).reasons
                       \o skill_part(referral, caregiver).reasons
                       \o availability_part(caregiver).reasons]

\* The loop over the caregivers: the matches in the order of the list.
RECURSIVE scored_matches(_, _)
scored_matches(referral, caregivers) ==
    IF caregivers = <<>> THEN <<>>
    ELSE IF Head(caregivers).active # "Y" THEN scored_matches(referral, Tail(caregivers))
    ELSE IF match_details(referral, Head(caregivers)).match_score >= min_match_score
    THEN <<match_details(referral, Head(caregivers))>>
         \o scored_matches(referral, Tail(caregivers))
    ELSE scored_matches(referral, Tail(caregivers))

\* Mutant: an entry goes in front of the entries of its own score.
sort_insert_front(sorted, x) ==
    LET k == Cardinality({i \in 1..Len(sorted) : sorted[i].match_score > x.match_score})
    IN SubSeq(sorted, 1, k) \o <<x>> \o SubSeq(sorted, k + 1, Len(sorted))

\* list.sort(key = match_score, reverse = True) is stable: an entry comes
\* after every entry of a higher or equal score that preceded it.
sort_insert(sorted, x) ==
    LET k == Cardinality({i \in 1..Len(sorted) : sorted[i].match_score >= x.match_score})
    IN SubSeq(sorted, 1, k) \o <<x>> \o SubSeq(sorted, k + 1, Len(sorted))

RECURSIVE sort_by_score(_)
sort_by_score(ms) ==
    IF ms = <<>> THEN <<>>
    ELSE sort_insert(sort_by_score(SubSeq(ms, 1, Len(ms) - 1)), ms[Len(ms)])

\* matches[:max_matches]
top_matches(ms) == SubSeq(ms, 1, IF Len(ms) < max_matches THEN Len(ms) ELSE max_matches)

match_caregivers(referral, caregivers) ==
    top_matches(sort_by_score(scored_matches(referral, caregivers)))

\* Inputs.  A caregiver file of one row varies over every profile, a longer
\* one over three profiles of different scores.
MatchReferrals ==
    [patient_city : {"Oakland"}, use_case : {"ecm", ""}]

CaregiverProfiles ==
    [active : {"Y", "N"},
     city : {"Oakland", "Oakland ", "Fremont"},
     skills : {"ECM", "Personal Care", "Behavioral Support", ""},
     availability : {"Flexible", "Full-Time", "Weekdays", ""}]

RankProfiles ==
    {[active |-> "Y", city |-> "Oakland", skills |-> "ECM", availability |-> "Flexible"],
     [active |-> "Y", city |-> "Fremont", skills |-> "Personal Care", availability |-> "Weekdays"],
     [active |-> "N", city |-> "Oakland", skills |-> "ECM", availability |-> "Flexible"]}

WithId(profile, n) ==
    [caregiver_id |-> n, active |-> profile.active, city |-> profile.city,
     skills |-> profile.skills, availability |-> profile.availability]

InitMatch ==
    /\ mreferral \in MatchReferrals
    /\ mcaregivers = <<>> /\ matches = <<>> /\ rematch = <<>>
    /\ matchpc = "build"

\* One more row of the caregiver file.
AddCaregiver ==
    /\ matchpc = "build"
    /\ Len(mcaregivers) < MaxCaregivers
    /\ \E profile \in CaregiverProfiles :
        /\ mcaregivers # <<>> =>
               /\ profile \in RankProfiles
               /\ WithId(mcaregivers[1], 0) \in {WithId(p, 0) : p \in RankProfiles}
        /\ mcaregivers' = Append(mcaregivers, WithId(profile, Len(mcaregivers) + 1))
    /\ UNCHANGED <<mreferral, matches, rematch, matchpc>>

\* matching_agent.match_caregivers(referral, caregivers)
Match ==
    /\ matchpc = "build"
    /\ matches' = match_caregivers(mreferral, mcaregivers)
    /\ matchpc' = "matched"
    /\ UNCHANGED <<mreferral, mcaregivers, rematch>>

\* The same call once more.
MatchAgain ==
    /\ matchpc = "matched"
    /\ rematch' = match_caregivers(mreferral, mcaregivers)
    /\ matchpc' = "rematched"
    /\ UNCHANGED <<mreferral, mcaregivers, matches>>

NextMatch ==
    \/ AddCaregiver /\ UNCHANGED <<pipeVars, mergeVars, journeyVars, twin, queueVars, raceVars, workVars, faultVars, sortVars>>
    \/ Match /\ UNCHANGED <<pipeVars, mergeVars, journeyVars, twin, queueVars, raceVars, workVars, faultVars, sortVars>>
    \/ MatchAgain /\ UNCHANGED <<pipeVars, mergeVars, journeyVars, twin, queueVars, raceVars, workVars, faultVars, sortVars>>

InitMatchOnly == InitMatch /\ PipeIdle /\ MergeIdle /\ JourneyIdle /\ QueueIdle /\ RaceIdle /\ WorkIdle /\ FaultIdle /\ SortIdle

SpecMatch == InitMatchOnly /\ [][NextMatch]_vars

(***************************************************************************)
(* Properties of match_caregivers.                                         *)
(***************************************************************************)
Returned(ms, caregiver) == \E i \in 1..Len(ms) : ms[i].caregiver_id = caregiver.caregiver_id

\* C11: every caregiver is scored city (+40 iff same city) + skill (+40 iff
\* the requested service is one of its skills, else +20 iff a general
\* home-care skill is present) + availability (+20 iff flexible or
\* full-time, else +10 iff non-empty), and a caregiver is returned only if
\* it is active and that total is at least 30.  The requested service is
\* one of the skills when the caregiver's skills name it, whatever the case
\* of the letters.
C11_ScoreIsCitySkillAvailability ==
    matchpc = "matched" =>
        \A n \in 1..Len(mcaregivers) :
            LET c == mcaregivers[n]
                service == str_upper(str_strip(mreferral.use_case))
                total ==
                    (IF str_strip(c.city) = str_strip(mreferral.patient_city) THEN 40 ELSE 0)
                    + (IF service # "" /\ str_contains(service, str_upper(c.skills)) THEN 40
                       ELSE IF \E i \in 1..Len(general_skills) :
                                   str_contains(general_skills[i], str_upper(c.skills))
                       THEN 20 ELSE 0)
                    + (IF str_contains("Flexible", c.availability)
                          \/ str_contains("Full-Time", c.availability) THEN 20
                       ELSE IF c.availability # "" THEN 10 ELSE 0)
            IN /\ match_details(mreferral, c).match_score = total
               /\ Returned(matches, c) => c.active = "Y" /\ total >= 30

\* C12: the returned list is sorted by score descending, caregivers of
\* equal score keep their order of the input list, at most 5 are returned,
\* no qualifying caregiver left out scores higher than a returned one, and
\* a second call with the same arguments returns the same list.
C12_RankedStableTopFive ==
    matchpc \in {"matched", "rematched"} =>
        /\ \A i, j \in 1..Len(matches) :
               i < j => /\ matches[i].match_score >= matches[j].match_score
                        /\ matches[i].match_score = matches[j].match_score
                               => matches[i].caregiver_id < matches[j].caregiver_id
        /\ Len(matches) <= 5
        /\ \A n \in 1..Len(mcaregivers) :
               (/\ mcaregivers[n].active = "Y"
                /\ match_details(mreferral, mcaregivers[n]).match_score >= min_match_score
                /\ ~Returned(matches, mcaregivers[n]))
               => \A i \in 1..Len(matches) :
                      matches[i].match_score
                          >= match_details(mreferral, mcaregivers[n]).match_score
        /\ matchpc = "rematched" => rematch = matches

\* Six qualifying caregivers were ranked twice: five came back, two of them
\* tied, one ranked above a caregiver that preceded it in the file.
C12_Witness ==
    /\ matchpc = "rematched"
    /\ Len(scored_matches(mreferral, mcaregivers)) = 6
    /\ Len(matches) = 5
    /\ \E i, j \in 1..Len(matches) :
           i < j /\ matches[i].match_score = matches[j].match_score
    /\ \E i, j \in 1..Len(matches) :
           /\ i < j /\ matches[i].match_score > matches[j].match_score
           /\ matches[i].caregiver_id > matches[j].caregiver_id

-----------------------------------------------------------------------------
(***************************************************************************)
(* Part VI.  The scheduling priority queue of ops_summary (backend/app.py) *)
(* in file mode.  A referral row holds the CSV cells as strings; dates are *)
(* ISO strings and `Today` is date.today().                                *)
(***************************************************************************)
Today == "2026-11-02"

MaxQueue == 4
MaxLimit == 2

\* Characters in the order of their code points (the ones the cells use).
CodePoints == " -/0123456789ABCDEFGHIJKLMNOPQRSTUVWXYZ_abcdefghijklmnopqrstuvwxyz"
Digits == "0123456789"

CodeOf == [c \in {CharAt(CodePoints, i) : i \in 1..Len(CodePoints)} |->
              CHOOSE i \in 1..Len(CodePoints) : CharAt(CodePoints, i) = c]

DigitOf == [c \in {CharAt(Digits, i) : i \in 1..Len(Digits)} |->
               (CHOOSE i \in 1..Len(Digits) : CharAt(Digits, i) = c) - 1]

LowerOf ==
    [c \in {CharAt(Uppercase, i) : i \in 1..Len(Uppercase)} |->
        CharAt(Lowercase, CHOOSE i \in 1..Len(Uppercase) : CharAt(Uppercase, i) = c)]

\* s.lower()
RECURSIVE str_lower(_)
str_lower(s) ==
    IF s = "" THEN ""
    ELSE (IF CharAt(s, 1) \in DOMAIN LowerOf THEN LowerOf[CharAt(s, 1)] ELSE CharAt(s, 1))
         \o str_lower(SubSeq(s, 2, Len(s)))

\* a <= b on str: by code points, a prefix first.
RECURSIVE str_le(_, _)
str_le(a, b) ==
    IF a = "" THEN TRUE
    ELSE IF b = "" THEN FALSE
    ELSE IF CharAt(a, 1) = CharAt(b, 1) THEN str_le(SubSeq(a, 2, Len(a)), SubSeq(b, 2, Len(b)))
    ELSE CodeOf[CharAt(a, 1)] < CodeOf[CharAt(b, 1)]

IsDigits(s) == s # "" /\ \A i \in 1..Len(s) : CharAt(s, i) \in DOMAIN DigitOf

RECURSIVE digits_value(_)
digits_value(s) ==
    IF s = "" THEN 0
    ELSE 10 * digits_value(SubSeq(s, 1, Len(s) - 1)) + DigitOf[CharAt(s, Len(s))]

\* _safe_int: int(str(x).strip()), 0 when int() raises.
_safe_int(x) ==
    LET s == str_strip(x)
    IN IF IsDigits(s) THEN digits_value(s)
       ELSE IF s # "" /\ CharAt(s, 1) = "-" /\ IsDigits(SubSeq(s, 2, Len(s)))
       THEN 0 - digits_value(SubSeq(s, 2, Len(s)))
       ELSE 0

\* datetime.date: the proleptic Gregorian ordinal of a day.
IsLeap(y) == y % 4 = 0 /\ (y % 100 # 0 \/ y % 400 = 0)
DaysBeforeMonth == <<0, 31, 59, 90, 120, 151, 181, 212, 243, 273, 304, 334>>
DaysInMonth(y, m) ==
    IF m = 2 THEN (IF IsLeap(y) THEN 29 ELSE 28)
    ELSE IF m \in {4, 6, 9, 11} THEN 30 ELSE 31

toordinal(y, m, d) ==
    365 * (y - 1) + ((y - 1) \div 4) - ((y - 1) \div 100) + ((y - 1) \div 400)
    + DaysBeforeMonth[m] + (IF m > 2 /\ IsLeap(y) THEN 1 ELSE 0) + d

NoDate == [ok |-> FALSE, ordinal |-> 0]

\* date.fromisoformat on "YYYY-MM-DD"; NoDate stands for the ValueError.
fromisoformat(s) ==
    IF /\ Len(s) = 10
       /\ IsDigits(SubSeq(s, 1, 4)) /\ CharAt(s, 5) = "-"
       /\ IsDigits(SubSeq(s, 6, 7)) /\ CharAt(s, 8) = "-"
       /\ IsDigits(SubSeq(s, 9, 10))
       /\ digits_value(SubSeq(s, 1, 4)) >= 1
       /\ digits_value(SubSeq(s, 6, 7)) \in 1..12
       /\ digits_value(SubSeq(s, 9, 10)) >= 1
       /\ digits_value(SubSeq(s, 9, 10))
              <= DaysInMonth(digits_value(SubSeq(s, 1, 4)), digits_value(SubSeq(s, 6, 7)))
    THEN [ok |-> TRUE,
          ordinal |-> toordinal(digits_value(SubSeq(s, 1, 4)), digits_value(SubSeq(s, 6, 7)),
                                digits_value(SubSeq(s, 9, 10)))]
    ELSE NoDate

\* _safe_date on a cell: None for a blank or malformed one.
_safe_date(value) ==
    LET s == str_strip(value)
    IN IF s = "" THEN NoDate
       ELSE fromisoformat(SubSeq(s, 1, IF Len(s) < 10 THEN Len(s) ELSE 10))

Min(a, b) == IF a < b THEN a ELSE b

_priority_score(r) ==
    (IF str_lower(str_strip(r.urgency)) = "urgent" THEN 100 ELSE 0)
    + (IF str_upper(str_strip(r.agent_segment)) = "RED" THEN 50
       ELSE IF str_upper(str_strip(r.agent_segment)) = "ORANGE" THEN 25 ELSE 0)
    + (IF _safe_date(r.referral_received_date).ok
       THEN Min(Max(0, _safe_date(Today).ordinal - _safe_date(r.referral_received_date).ordinal), 30)
       ELSE 0)
    + (IF _safe_date(r.auth_end_date).ok
       THEN (IF _safe_date(r.auth_end_date).ordinal - _safe_date(Today).ordinal <= 3 THEN 40
             ELSE IF _safe_date(r.auth_end_date).ordinal - _safe_date(Today).ordinal <= 7 THEN 20
             ELSE 0)
       ELSE 0)
    + (IF _safe_int(r.contact_attempts) >= 3 THEN 10 ELSE 0)
    + (IF _safe_int(r.auth_units_remaining) <= 2 /\ _safe_int(r.auth_units_remaining) > 0
       THEN 10 ELSE 0)

_is_active(r) == str_upper(str_strip(r.service_complete)) = "N"

\* Mutant: a case whose service is complete still counts as pending.
_is_pending_sched_any(r) ==
    /\ str_strip(r.schedule_status) = "NOT_SCHEDULED"
    /\ str_upper(str_strip(r.insurance_active)) = "Y"
    /\ \/ str_upper(str_strip(r.auth_required)) = "N"
       \/ str_upper(str_strip(r.auth_status)) = "APPROVED"

_is_pending_sched(r) ==
    /\ str_strip(r.schedule_status) = "NOT_SCHEDULED"
    /\ str_upper(str_strip(r.insurance_active)) = "Y"
    /\ \/ str_upper(str_strip(r.auth_required)) = "N"
       \/ str_upper(str_strip(r.auth_status)) = "APPROVED"
    /\ _is_active(r)

\* queue = [r for r in referrals if _is_pending_sched(r)], each with its score.
RECURSIVE pending_scored(_)
pending_scored(referrals) ==
    IF referrals = <<>> THEN <<>>
    ELSE IF _is_pending_sched(Head(referrals))
    THEN <<[r |-> Head(referrals), score |-> _priority_score(Head(referrals))]>>
         \o pending_scored(Tail(referrals))
    ELSE pending_scored(Tail(referrals))

\* The sort key (-score, str(referral_received_date)) of a <= that of b.
queue_key_le(a, b) ==
    \/ a.score > b.score
    \/ a.score = b.score /\ str_le(a.r.referral_received_date, b.r.referral_received_date)

\* queue.sort(key = ...) is stable: an entry comes after every entry that
\* preceded it and whose key is not greater.
queue_insert(sorted, x) ==
    LET k == Cardinality({i \in 1..Len(sorted) : queue_key_le(sorted[i], x)})
    IN SubSeq(sorted, 1, k) \o <<x>> \o SubSeq(sorted, k + 1, Len(sorted))

RECURSIVE queue_sort(_)
queue_sort(q) ==
    IF q = <<>> THEN <<>>
    ELSE queue_insert(queue_sort(SubSeq(q, 1, Len(q) - 1)), q[Len(q)])

_priority_label(score) ==
    IF score >= 130 THEN "HIGH" ELSE IF score >= 80 THEN "MEDIUM" ELSE "LOW"

\* One entry of the priority_queue of the answer.
queue_entry(e) ==
    [referral_id |-> e.r.referral_id,
     urgency |-> e.r.urgency,
     agent_segment |-> e.r.agent_segment,
     schedule_status |-> e.r.schedule_status,
     referral_received_date |-> e.r.referral_received_date,
     score |-> e.score,
     priority |-> _priority_label(e.score)]

\* top = queue[:limit], as the priority_queue of the answer.
priority_queue(referrals, limit) ==
    LET q == queue_sort(pending_scored(referrals))
    IN [i \in 1..Min(limit, Len(q)) |-> queue_entry(q[i])]

\* Inputs.  A single row varies over every scoring profile and every filter
\* profile; a longer list over five profiles: an urgent case, two routine
\* cases of equal score received on different days, a scheduled case and a
\* completed case that was set back to NOT_SCHEDULED.
PendingCells ==
    [schedule_status : {"NOT_SCHEDULED"}, insurance_active : {"Y"},
     auth_required : {"N"}, auth_status : {"NOT_REQUIRED"}, service_complete : {"N"}]

ScoreCells ==
    [urgency : {"Urgent", "Routine"},
     agent_segment : {"RED", "ORANGE", "GREEN"},
     referral_received_date : {"", "2026-10-23", "2026-09-18"},
     auth_end_date : {"", "2026-11-04", "2026-11-05", "2026-11-06", "2026-11-09", "2026-11-10"},
     contact_attempts : {"", "2", "3", "5"},
     auth_units_remaining : {"0", "2", "3"}]

FilterCells ==
    [schedule_status : {"NOT_SCHEDULED", "SCHEDULED", "COMPLETED"},
     insurance_active : {"Y", "N"},
     auth_required : {"Y", "N"},
     auth_status : {"APPROVED", "PENDING"},
     service_complete : {"Y", "N"}]

Row(n, f, c) ==
    [referral_id |-> n,
     schedule_status |-> f.schedule_status, insurance_active |-> f.insurance_active,
     auth_required |-> f.auth_required, auth_status |-> f.auth_status,
     service_complete |-> f.service_complete,
     urgency |-> c.urgency, agent_segment |-> c.agent_segment,
     referral_received_date |-> c.referral_received_date,
     auth_end_date |-> c.auth_end_date,
     contact_attempts |-> c.contact_attempts,
     auth_units_remaining |-> c.auth_units_remaining]

Pending == CHOOSE f \in PendingCells : TRUE

Routine(received) ==
    [urgency |-> "Routine", agent_segment |-> "GREEN", referral_received_date |-> received,
     auth_end_date |-> "", contact_attempts |-> "0", auth_units_remaining |-> "0"]

QueueProfiles ==
    {Row(0, Pending, [Routine("2026-10-23") EXCEPT !.urgency = "Urgent"]),
     Row(0, Pending, Routine("2026-10-03")),
     Row(0, Pending, Routine("2026-09-18")),
     Row(0, [Pending EXCEPT !.schedule_status = "SCHEDULED"], Routine("2026-09-18")),
     Row(0, [Pending EXCEPT !.service_complete = "Y"], Routine("2026-09-18"))}

SingleProfiles ==
    {Row(0, Pending, c) : c \in ScoreCells}
    \cup {Row(0, f, Routine("2026-10-23")) : f \in FilterCells}

InitQueue ==
    qreferrals = <<>> /\ queue = <<>> /\ qlimit = 0 /\ qpc = "build"

\* One more referral row in the file.
AddReferral ==
    /\ qpc = "build"
    /\ Len(qreferrals) < MaxQueue
    /\ \E profile \in SingleProfiles \cup QueueProfiles :
        /\ qreferrals # <<>> =>
               /\ profile \in QueueProfiles
               /\ [qreferrals[1] EXCEPT !.referral_id = 0] \in QueueProfiles
        /\ qreferrals' = Append(qreferrals, [profile EXCEPT !.referral_id = Len(qreferrals) + 1])
    /\ UNCHANGED <<queue, qlimit, qpc>>

\* GET /api/v1/ops/summary?limit=...: the priority queue of the answer.
ops_summary ==
    /\ qpc = "build"
    /\ \E limit \in 1..MaxLimit :
        /\ qlimit' = limit
        /\ queue' = priority_queue(qreferrals, limit)
    /\ qpc' = "ranked"
    /\ UNCHANGED qreferrals

NextQueue ==
    \/ AddReferral /\ UNCHANGED <<pipeVars, mergeVars, journeyVars, twin, matchVars, raceVars, workVars, faultVars, sortVars>>
    \/ ops_summary /\ UNCHANGED <<pipeVars, mergeVars, journeyVars, twin, matchVars, raceVars, workVars, faultVars, sortVars>>

InitQueueOnly == InitQueue /\ PipeIdle /\ MergeIdle /\ JourneyIdle /\ MatchIdle /\ RaceIdle /\ WorkIdle /\ FaultIdle /\ SortIdle

SpecQueue == InitQueueOnly /\ [][NextQueue]_vars

(***************************************************************************)
(* Properties of the priority score and the priority queue.                *)
(***************************************************************************)
DaysBetween(from, to) == _safe_date(to).ordinal - _safe_date(from).ordinal

\* C13: the priority score is 100 iff urgent + 50 iff RED, 25 iff ORANGE +
\* min(days since received, 30) + 40 iff the authorization expires within 3
\* days, else 20 iff within 7 days, + 10 iff contact attempts >= 5 + 10 iff
\* the authorization units remaining are in (0,2].
C13_PriorityScoreSum ==
    qpc = "ranked" =>
        \A n \in 1..Len(qreferrals) :
            LET r == qreferrals[n]
            IN _priority_score(r) =
                 (IF str_lower(str_strip(r.urgency)) = "urgent" THEN 100 ELSE 0)
                 + (IF r.agent_segment = "RED" THEN 50
                    ELSE IF r.agent_segment = "ORANGE" THEN 25 ELSE 0)
                 + (IF r.referral_received_date = "" THEN 0
                    ELSE Min(Max(0, DaysBetween(r.referral_received_date, Today)), 30))
                 + (IF r.auth_end_date = "" THEN 0
                    ELSE IF DaysBetween(Today, r.auth_end_date) <= 3 THEN 40
                    ELSE IF DaysBetween(Today, r.auth_end_date) <= 7 THEN 20 ELSE 0)
                 + (IF _safe_int(r.contact_attempts) >= 5 THEN 10 ELSE 0)
                 + (IF _safe_int(r.auth_units_remaining) \in 1..2 THEN 10 ELSE 0)

\* The queue is the first qlimit of the cases satisfying IsPending, ranked
\* by score descending and, at equal score, by received date ascending.
Outranks(score_a, received_a, score_b, received_b) ==
    \/ score_a > score_b
    \/ /\ score_a = score_b
       /\ _safe_date(received_a).ordinal <= _safe_date(received_b).ordinal

InQueue(r) == \E i \in 1..Len(queue) : queue[i].referral_id = r.referral_id

RankedQueueOf(IsPending(_)) ==
    /\ Len(queue) = Min(qlimit, Cardinality({n \in 1..Len(qreferrals) : IsPending(qreferrals[n])}))
    /\ \A i \in 1..Len(queue) :
           \E n \in 1..Len(qreferrals) :
               /\ qreferrals[n].referral_id = queue[i].referral_id
               /\ IsPending(qreferrals[n])
               /\ queue[i].score = _priority_score(qreferrals[n])
    /\ \A i, j \in 1..Len(queue) :
           i < j => Outranks(queue[i].score, queue[i].referral_received_date,
                             queue[j].score, queue[j].referral_received_date)
    /\ \A n \in 1..Len(qreferrals) :
           (IsPending(qreferrals[n]) /\ ~InQueue(qreferrals[n])) =>
               \A i \in 1..Len(queue) :
                   Outranks(queue[i].score, queue[i].referral_received_date,
                            _priority_score(qreferrals[n]),
                            qreferrals[n].referral_received_date)

\* C14 (as stated): the priority queue holds exactly the cases that are
\* unscheduled, have active insurance and no outstanding authorization
\* blocker, by score descending, equal scores by earliest received date
\* first, truncated to the highest-ranked prefix of the requested limit.
C14_QueueOfUnscheduledInsuredUnblocked ==
    qpc = "ranked" =>
        RankedQueueOf(LAMBDA r : /\ r.schedule_status = "NOT_SCHEDULED"
                                 /\ r.insurance_active = "Y"
                                 /\ (r.auth_required = "N" \/ r.auth_status = "APPROVED"))

\* C14 (amended): the same, the queue holding only cases whose service is
\* not complete.
C14_QueueOfPendingActive ==
    qpc = "ranked" =>
        RankedQueueOf(LAMBDA r : /\ r.schedule_status = "NOT_SCHEDULED"
                                 /\ r.insurance_active = "Y"
                                 /\ (r.auth_required = "N" \/ r.auth_status = "APPROVED")
                                 /\ r.service_complete = "N")

\* A file with an unscheduled completed case and more pending cases than
\* the limit was ranked: the queue is full, and two cases of equal score
\* are listed by received date against their order in the file.
C14_Witness ==
    /\ qpc = "ranked"
    /\ Len(queue) = qlimit
    /\ Cardinality({n \in 1..Len(qreferrals) : _is_pending_sched(qreferrals[n])}) > qlimit
    /\ \E n \in 1..Len(qreferrals) :
           /\ qreferrals[n].schedule_status = "NOT_SCHEDULED"
           /\ qreferrals[n].service_complete = "Y"
    /\ \E i, j \in 1..Len(queue) :
           /\ i < j /\ queue[i].score = queue[j].score
           /\ queue[i].referral_id > queue[j].referral_id

-----------------------------------------------------------------------------
(***************************************************************************)
(* The autopilot over a runtime file that already holds one case ingested  *)
(* from a PDF.  The insurance cell of a stored row is whatever the file    *)
(* holds: _autopilot_tick_for_referral reads it on every tick.             *)
(***************************************************************************)
InsuranceCells == {"Y", "N"}

StoredReferrals ==
    {[NewReferral(_next_referral_id(ExistingIds(EmptyWorld)), city, auth, PdfRationale)
         EXCEPT !.insurance_active = ins] :
        city \in Cities, auth \in AuthProfiles, ins \in InsuranceCells}

InitStored ==
    /\ runtime \in {<<r>> : r \in StoredReferrals}
    /\ journey = <<>> /\ sched = <<>> /\ now = 0 /\ manual = 0
    /\ lastOp = "init" /\ twin = <<>>
    /\ PipeIdle /\ MergeIdle /\ ExtIdle

NextStored ==
    \/ AutopilotTick /\ UNCHANGED <<pipeVars, mergeVars, twin, extVars>>
    \/ ClockAdvance /\ UNCHANGED <<pipeVars, mergeVars, twin, extVars>>

SpecStored == InitStored /\ [][NextStored]_vars

HaltedStages ==
    {"HOME_ASSESSMENT_SCHEDULED", "HOME_ASSESSMENT_COMPLETED", "SCHEDULED",
     "READY_TO_BILL", "SERVICE_COMPLETED"}

JourneyOrder ==
    <<"INTAKE_RECEIVED", "DOCS_COMPLETED", "HOME_ASSESSMENT_SCHEDULED",
      "HOME_ASSESSMENT_COMPLETED", "SCHEDULED", "READY_TO_BILL", "SERVICE_COMPLETED">>

OrderIndex(st) == CHOOSE k \in 1..Len(JourneyOrder) : JourneyOrder[k] = st

\* C16: in every event log the autopilot produced, the stages other than
\* AUTH_PENDING appear in the journey order: no event comes after an event
\* of a later stage (SCHEDULED only after HOME_ASSESSMENT_COMPLETED).
C16_EventsInJourneyOrder ==
    \A rid \in DOMAIN journey :
        \A i, j \in 1..Len(journey[rid].events) :
            (/\ i < j
             /\ journey[rid].events[i].stage # "AUTH_PENDING"
             /\ journey[rid].events[j].stage # "AUTH_PENDING")
            => OrderIndex(journey[rid].events[i].stage)
                   <= OrderIndex(journey[rid].events[j].stage)

-----------------------------------------------------------------------------
(***************************************************************************)
(* Part VII.  Requests in flight.  uvicorn runs the handlers of app.py on  *)
(* one event loop, so a handler runs without interruption from one await   *)
(* to the next.  intake_from_pdf loads runtime_rows and existing_ids, then *)
(* awaits the upload and the LandingAI parse of each file, and only then   *)
(* builds the new row, saves runtime_rows and ticks: whatever other        *)
(* requests did in between is not in the rows it saves.  Every other       *)
(* handler of the model has no await between its reads and its writes.     *)
(***************************************************************************)
\* runtime_rows and existing_ids as loaded, and the referral of the upload.
Suspended(W, city, auth) ==
    [runtime_rows |-> _load_runtime_referrals(W), existing_ids |-> ExistingIds(W),
     city |-> city, auth |-> auth]

\* The rest of the handler after the awaits: new row in front of the rows
\* loaded then, save, tick.
ResumeResult(W, req, t) ==
    _autopilot_tick_all(
        [W EXCEPT !.runtime =
            <<NewReferral(_next_referral_id(req.existing_ids), req.city, req.auth, PdfRationale)>>
            \o req.runtime_rows],
        t)

RemoveAt(seq, k) == SubSeq(seq, 1, k - 1) \o SubSeq(seq, k + 1, Len(seq))

\* intake_from_pdf up to its first await.
IntakeBegin ==
    /\ Len(inflight) + created < MaxCases
    /\ \E city \in Cities, auth \in AuthProfiles :
        inflight' = Append(inflight, Suspended(World, city, auth))
    /\ UNCHANGED <<journeyVars, created>>

\* intake_from_pdf after its last await.
IntakeResume ==
    /\ \E k \in 1..Len(inflight) :
        /\ Handled("intake_from_pdf", ResumeResult(World, inflight[k], now))
        /\ inflight' = RemoveAt(inflight, k)
    /\ created' = created + 1
    /\ UNCHANGED <<now, manual>>

InitInflight ==
    /\ runtime = <<>> /\ journey = <<>> /\ sched = <<>> /\ now = 0 /\ manual = 0
    /\ lastOp = "init" /\ twin = <<>>
    /\ PipeIdle /\ MergeIdle /\ MatchIdle /\ QueueIdle /\ RaceIdle /\ WorkIdle /\ FaultIdle /\ SortIdle

NextInflight ==
    \/ IntakeBegin /\ UNCHANGED <<pipeVars, mergeVars, twin, matchVars, queueVars, workVars, faultVars, sortVars>>
    \/ IntakeResume /\ UNCHANGED <<pipeVars, mergeVars, twin, matchVars, queueVars, workVars, faultVars, sortVars>>
    \/ AutopilotTick /\ UNCHANGED <<pipeVars, mergeVars, twin, extVars>>
    \/ ClockAdvance /\ UNCHANGED <<pipeVars, mergeVars, twin, extVars>>

SpecInflight == InitInflight /\ [][NextInflight]_vars

\* C17: no update of a completed operation is lost: every case that a
\* completed intake request created is in the store under its own id, and
\* every case of the store keeps its journey log and its scheduling
\* decision.
C17_NoLostUpdate ==
    /\ Cardinality(RuntimeIds(World)) = created
    /\ Len(runtime) = created
    /\ \A rid \in DOMAIN journey \cup DOMAIN sched : rid \in RuntimeIds(World)

-----------------------------------------------------------------------------
(***************************************************************************)
(* Properties of the caregiver choice of the autopilot.                    *)
(***************************************************************************)
\* The SCHEDULED decisions of a caregiver for cases that are not complete.
LoadOf(cg) ==
    Cardinality({rid \in DOMAIN sched :
        /\ sched[rid].assigned_caregiver_id = cg
        /\ sched[rid].schedule_status = "SCHEDULED"
        /\ \E i \in 1..Len(runtime) :
               /\ runtime[i].referral_id = rid
               /\ ApplyOverrides(World, runtime[i]).service_complete # "Y"})

\* 1 for part-time, 2 for contract, 3 otherwise; one less, but at least 1,
\* when the availability is limited.
CapacityOf(c) ==
    LET base == IF str_contains("part", str_lower(c.employment_type)) THEN 1
                ELSE IF str_contains("contract", str_lower(c.employment_type)) THEN 2
                ELSE 3
    IN IF str_contains("limited", str_lower(c.availability)) THEN Max(1, base - 1) ELSE base

\* The capacity of every caregiver of the file.
Capacities == [i \in 1..Len(Caregivers) |-> CapacityOf(Caregivers[i])]

Available(i) ==
    Caregivers[i].active = "Y" /\ LoadOf(Caregivers[i].caregiver_id) < Capacities[i]

\* C18: the caregiver chosen for a case is active and has load < capacity,
\* a same-city available caregiver is preferred over any other, none is
\* chosen when none is available, and the autopilot keeps the load of
\* every caregiver at or below its capacity.
C18_NoDoubleBooking ==
    /\ \A i \in 1..Len(Caregivers) :
           /\ _caregiver_capacity(Caregivers[i]) = Capacities[i]
           /\ LoadOf(Caregivers[i].caregiver_id) <= Capacities[i]
    /\ \A city \in Cities :
           LET chosen == _select_available_caregiver([patient_city |-> city], sched,
                                                     _load_referrals_csv(World))
           IN /\ chosen # "" =>
                     \E i \in 1..Len(Caregivers) :
                         /\ Caregivers[i].caregiver_id = chosen
                         /\ Available(i)
                         /\ (\E j \in 1..Len(Caregivers) :
                                 Available(j) /\ Caregivers[j].city = city)
                            => Caregivers[i].city = city
              /\ chosen = "" <=> \A i \in 1..Len(Caregivers) : ~Available(i)

\* The autopilot scheduled two cases of the same city: the second went to
\* the caregiver of another city, and no caregiver has room left.
C18_Witness ==
    /\ lastOp = "tick"
    /\ \E rid1, rid2 \in DOMAIN sched :
           /\ rid1 # rid2
           /\ sched[rid1].assigned_caregiver_id # sched[rid2].assigned_caregiver_id
           /\ \E i, j \in 1..Len(runtime) :
                  /\ runtime[i].referral_id = rid1 /\ runtime[j].referral_id = rid2
                  /\ runtime[i].patient_city = runtime[j].patient_city
    /\ \A i \in 1..Len(Caregivers) :
           Caregivers[i].active = "Y"
               => LoadOf(Caregivers[i].caregiver_id) = Capacities[i]
    /\ \A city \in Cities :
           _select_available_caregiver([patient_city |-> city], sched,
                                       _load_referrals_csv(World)) = ""

-----------------------------------------------------------------------------
(***************************************************************************)
(* Part VIII.  The three-agent workflow (agent_workflow.py): validation,   *)
(* caregiver matching and scheduling, each with an advisory text that      *)
(* Gemini writes when it is configured and answers.                        *)
(***************************************************************************)
insurance_penalty == 30
auth_penalty == 40
no_units_penalty == 35
docs_penalty == 10
assessment_penalty == 10
responsiveness_penalty == 5
high_contact_threshold == 5
max_units_per_week == 20
default_buffer == 0
urgent_keywords == <<"Urgent">>

\* sep.join(parts)
RECURSIVE str_join(_, _)
str_join(sep, parts) ==
    IF parts = <<>> THEN ""
    ELSE IF Len(parts) = 1 THEN parts[1]
    ELSE parts[1] \o sep \o str_join(sep, Tail(parts))

\* The issues, the warnings and the score validate_referral collects, in the
\* order of its checks.
validation_issues(referral) ==
    (IF referral.insurance_active # "Y" THEN <<"Insurance is not active">> ELSE <<>>)
    \o (IF referral.auth_required = "Y" /\ referral.auth_status # "APPROVED"
        THEN <<"Authorization not approved">> ELSE <<>>)
    \o (IF referral.auth_required = "Y" /\ referral.auth_units_remaining <= 0
        THEN <<"No authorization units remaining">> ELSE <<>>)

validation_warnings(referral) ==
    (IF referral.docs_complete # "Y" THEN <<"Documentation incomplete">> ELSE <<>>)
    \o (IF referral.home_assessment_done # "Y"
        THEN <<"Home assessment not completed">> ELSE <<>>)
    \o (IF referral.patient_responsive = "LOW"
        THEN <<"Low patient responsiveness">> ELSE <<>>)
    \o (IF referral.contact_attempts > high_contact_threshold
        THEN <<"High contact attempts: " \o ToString(referral.contact_attempts)>>
        ELSE <<>>)

validation_score(referral) ==
    100
    - (IF referral.insurance_active # "Y" THEN insurance_penalty ELSE 0)
    - (IF referral.auth_required = "Y" /\ referral.auth_status # "APPROVED"
       THEN auth_penalty ELSE 0)
    - (IF referral.auth_required = "Y" /\ referral.auth_units_remaining <= 0
       THEN no_units_penalty ELSE 0)
    - (IF referral.docs_complete # "Y" THEN docs_penalty ELSE 0)
    - (IF referral.home_assessment_done # "Y" THEN assessment_penalty ELSE 0)
    - (IF referral.patient_responsive = "LOW" THEN responsiveness_penalty ELSE 0)

\* validate_referral: a failed check blocks; NEEDS_DOCS, set on the way when
\* the docs are incomplete, is overwritten by the final determination of a
\* valid referral and never set for a blocked one.
validate_referral(referral) ==
    [referral_id |-> referral.referral_id,
     is_valid |-> validation_issues(referral) = <<>>,
     issues |-> validation_issues(referral),
     warnings |-> validation_warnings(referral),
     status |-> IF validation_issues(referral) # <<>> THEN "BLOCKED"
                ELSE IF validation_warnings(referral) = <<>> THEN "READY"
                ELSE "READY_WITH_WARNINGS",
     validation_score |-> validation_score(referral),
     priority |-> IF referral.urgency = "Urgent" THEN "HIGH" ELSE "NORMAL"]

\* What generate_content did: it raised, or it returned a response whose
\* text is None, "" or a sentence.
Raises == [raises |-> TRUE, text |-> NoneV]
Responds(text) == [raises |-> FALSE, text |-> text]
Responses ==
    {Raises, Responds(NoneV), Responds(Str("")),
     Responds(Str(" PROCEED: assign the top match. "))}

\* The rule-based texts.
validation_fallback(validation) ==
    IF validation.status = "BLOCKED"
    THEN "HOLD: Cannot proceed. Issues: " \o str_join(", ", validation.issues)
    ELSE IF validation.status = "READY"
    THEN "PROCEED: Referral validated. Priority: " \o validation.priority
    ELSE IF validation.status = "READY_WITH_WARNINGS"
    THEN "PROCEED WITH CAUTION: " \o str_join(", ", validation.warnings)
    ELSE "REVIEW: " \o validation.status

matching_fallback(ms) ==
    IF Len(ms) >= 3
    THEN "EXCELLENT: Found " \o ToString(Len(ms)) \o " matching caregivers. Top match: "
         \o ms[1].caregiver_id \o " (" \o ToString(ms[1].match_score) \o "%)"
    ELSE IF Len(ms) > 0
    THEN "GOOD: Found " \o ToString(Len(ms)) \o " caregiver(s). Assign "
         \o ms[1].caregiver_id \o " (score: " \o ToString(ms[1].match_score) \o "%)"
    ELSE "LIMITED: Only " \o ToString(Len(ms)) \o " match found"

scheduling_fallback(schedule_rec) ==
    IF schedule_rec.schedule_action = "SCHEDULE_NOW"
    THEN "SCHEDULE NOW [" \o schedule_rec.priority \o "]: "
         \o str_join(", ", schedule_rec.rationale)
    ELSE IF schedule_rec.schedule_action = "HOLD"
    THEN "HOLD: " \o str_join(", ", schedule_rec.rationale)
    ELSE "BLOCK: Cannot schedule. " \o str_join(", ", schedule_rec.rationale)

\* ReferralValidationAgent.get_agent_recommendation: Gemini's text when the
\* model is configured and `response and response.text` is truthy.
validation_recommendation(validation, configured, response) ==
    IF configured /\ ~response.raises /\ Truthy(response.text)
    THEN str_strip(response.text.s)
    ELSE validation_fallback(validation)

\* CaregiverMatchingAgent.get_agent_recommendation: response.text.strip() is
\* returned as it is; None.strip() raises and is caught.
matching_recommendation(referral_id, ms, configured, response) ==
    IF ms = <<>>
    THEN "NO MATCHES: No caregivers found in the area for " \o referral_id
    ELSE IF configured /\ ~response.raises /\ IsStr(response.text)
    THEN str_strip(response.text.s)
    ELSE matching_fallback(ms)

\* SchedulingAgent.get_agent_recommendation: the same shape.
scheduling_recommendation(schedule_rec, configured, response) ==
    IF configured /\ ~response.raises /\ IsStr(response.text)
    THEN str_strip(response.text.s)
    ELSE scheduling_fallback(schedule_rec)

schedule_priority(referral, validation) ==
    IF (\E i \in 1..Len(urgent_keywords) : str_contains(urgent_keywords[i], referral.urgency))
       \/ validation.priority = "HIGH"
    THEN "HIGH" ELSE "NORMAL"

suggested_units(referral) ==
    IF referral.auth_units_remaining > 0
    THEN LET suggested == Min(referral.auth_units_remaining
                              - referral.units_scheduled_next_7d, max_units_per_week)
         IN IF suggested > default_buffer THEN suggested ELSE default_buffer
    ELSE 0

\* create_schedule_recommendation; caregiver_match is the sequence of the
\* top match, empty for None.
create_schedule_recommendation(referral, validation, caregiver_match) ==
    LET base == [referral_id |-> referral.referral_id,
                 caregiver_id |-> IF caregiver_match # <<>>
                                  THEN caregiver_match[1].caregiver_id ELSE "None",
                 can_schedule |-> FALSE,
                 schedule_action |-> "HOLD",
                 priority |-> schedule_priority(referral, validation),
                 suggested_units |-> 0,
                 rationale |-> <<>>,
                 next_steps |-> <<>>]
    IN  IF ~validation.is_valid
        THEN [base EXCEPT !.schedule_action = "BLOCK",
                          !.rationale = <<"Referral validation failed">>,
                          !.next_steps = <<"Resolve validation issues first">>]
        ELSE IF referral.docs_complete # "Y"
        THEN [base EXCEPT
                 !.rationale = <<"Documentation incomplete - cannot schedule">>
                     \o (IF referral.home_assessment_done # "Y"
                         THEN <<"Home assessment not completed">> ELSE <<>>),
                 !.next_steps = <<"Complete required documentation first">>
                     \o (IF referral.home_assessment_done # "Y"
                         THEN <<"Schedule and complete home assessment">> ELSE <<>>)]
        ELSE IF referral.home_assessment_done # "Y"
        THEN [base EXCEPT
                 !.rationale = <<"Home assessment not completed - cannot schedule">>,
                 !.next_steps = <<"Schedule and complete home assessment first">>]
        ELSE IF caregiver_match = <<>>
        THEN [base EXCEPT !.rationale = <<"No caregiver matched">>,
                          !.next_steps = <<"Find suitable caregiver">>]
        ELSE [base EXCEPT
                 !.can_schedule = TRUE,
                 !.schedule_action = "SCHEDULE_NOW",
                 !.suggested_units = suggested_units(referral),
                 !.rationale =
                     (IF base.priority = "HIGH"
                      THEN <<referral.urgency \o " referral - high priority">> ELSE <<>>)
                     \o (IF referral.auth_units_remaining > 0
                         THEN <<"Suggest " \o ToString(suggested_units(referral))
                                \o " units for next 7 days">>
                         ELSE <<>>)
                     \o (IF referral.schedule_status = "NOT_SCHEDULED"
                         THEN <<"Patient waiting - needs immediate scheduling">>
                         ELSE <<>>),
                 !.next_steps =
                     (IF referral.schedule_status = "NOT_SCHEDULED"
                      THEN <<"Contact patient to confirm availability">> ELSE <<>>)
                     \o <<"Assign caregiver: " \o caregiver_match[1].caregiver_id,
                          "Schedule " \o ToString(suggested_units(referral)) \o " "
                              \o referral.unit_type,
                          "Send confirmation to patient and caregiver",
                          "Update referral status to SCHEDULED">>]

\* Agent 2 runs only for a valid referral with complete docs and a done
\* home assessment.
matching_runs(referral, validation) ==
    /\ validation.is_valid
    /\ referral.docs_complete = "Y"
    /\ referral.home_assessment_done = "Y"

workflow_matches(referral, caregivers) ==
    IF matching_runs(referral, validate_referral(referral))
    THEN match_caregivers(referral, caregivers) ELSE <<>>

workflow_matching_text(referral, validation, ms, o) ==
    IF ~validation.is_valid THEN "SKIPPED: Validation failed"
    ELSE IF referral.docs_complete # "Y"
    THEN "SKIPPED: Documentation incomplete - complete docs first"
    ELSE IF referral.home_assessment_done # "Y"
    THEN "SKIPPED: Home assessment pending - complete assessment first"
    ELSE matching_recommendation(referral.referral_id, ms, o.configured, o.matching)

final_status(validation, schedule_rec, ms) ==
    IF schedule_rec.can_schedule THEN "READY_TO_SCHEDULE"
    ELSE IF ~validation.is_valid THEN "BLOCKED"
    ELSE IF \E i \in 1..Len(schedule_rec.rationale) :
                str_contains("Documentation", schedule_rec.rationale[i])
    THEN "PENDING_DOCUMENTATION"
    ELSE IF \E i \in 1..Len(schedule_rec.rationale) :
                \/ str_contains("Home assessment", schedule_rec.rationale[i])
                \/ str_contains("assessment", schedule_rec.rationale[i])
    THEN "PENDING_HOME_ASSESSMENT"
    ELSE IF ms = <<>> THEN "PENDING_CAREGIVER"
    ELSE "ON_HOLD"

\* AgentWorkflow.process_referral under the Gemini behaviour o; the
\* timestamp of the result is left out.
workflow_result(referral, validation, ms, schedule_rec, o) ==
    [referral_id |-> referral.referral_id,
     agents_executed |->
         <<"ReferralValidationAgent">>
         \o (IF matching_runs(referral, validation)
             THEN <<"CaregiverMatchingAgent">> ELSE <<>>)
         \o <<"SchedulingAgent">>,
     validation |-> validation,
     validation_recommendation |->
         validation_recommendation(validation, o.configured, o.validation),
     matches |-> ms,
     matching_recommendation |-> workflow_matching_text(referral, validation, ms, o),
     schedule_recommendation |-> schedule_rec,
     scheduling_recommendation |->
         scheduling_recommendation(schedule_rec, o.configured, o.scheduling),
     final_status |-> final_status(validation, schedule_rec, ms)]

\* matches[0] if matches else None
top_match(ms) == IF ms = <<>> THEN <<>> ELSE <<ms[1]>>

process_referral(referral, caregivers, o) ==
    workflow_result(referral, validate_referral(referral),
                    workflow_matches(referral, caregivers),
                    create_schedule_recommendation(
                        referral, validate_referral(referral),
                        top_match(workflow_matches(referral, caregivers))),
                    o)

\* Inputs.  The endpoint hands over the active caregivers of the patient's
\* city; without an API key no agent has a model, and the calls are not made.
WorkflowReferrals ==
    [referral_id : {"REF-1001"},
     insurance_active : {"Y", "N"},
     auth_required : {"Y"},
     auth_status : {"APPROVED", "PENDING"},
     auth_units_remaining : {12},
     docs_complete : {"Y", "N"},
     home_assessment_done : {"Y", "N"},
     patient_responsive : {"LOW", "HIGH"},
     urgency : {"Urgent", "Routine"},
     contact_attempts : {2, 6},
     units_scheduled_next_7d : {4},
     schedule_status : {"NOT_SCHEDULED"},
     unit_type : {"visits"},
     patient_city : {"Oakland"},
     use_case : {"ecm"}]

WorkflowCaregiver(id, skills, availability) ==
    [caregiver_id |-> id, active |-> "Y", city |-> "Oakland",
     skills |-> skills, availability |-> availability]

WorkflowCaregivers ==
    {<<>>,
     <<WorkflowCaregiver("CG-001", "ECM", "Flexible")>>,
     <<WorkflowCaregiver("CG-001", "Personal Care", "Weekdays"),
       WorkflowCaregiver("CG-002", "ECM", "Flexible"),
       WorkflowCaregiver("CG-003", "Home Health", "Evenings")>>}

NotConfigured ==
    [configured |-> FALSE, validation |-> Raises, matching |-> Raises,
     scheduling |-> Raises]

LlmOutcomes ==
    {NotConfigured}
    \cup [configured : {TRUE}, validation : Responses, matching : Responses,
          scheduling : Responses]

InitWorkflow ==
    /\ wreferral \in WorkflowReferrals
    /\ wcaregivers \in WorkflowCaregivers
    /\ llm = <<>> /\ workflow = <<>>

\* POST /agent/process-referral/{referral_id}
process_referral_with_agents ==
    /\ workflow = <<>>
    /\ \E o \in LlmOutcomes :
           /\ llm' = o
           /\ workflow' = process_referral(wreferral, wcaregivers, o)
    /\ UNCHANGED <<wreferral, wcaregivers>>

NextWorkflow ==
    \/ process_referral_with_agents
           /\ UNCHANGED <<pipeVars, mergeVars, journeyVars, twin, matchVars, queueVars, raceVars, faultVars, sortVars>>

InitWorkflowOnly == InitWorkflow /\ PipeIdle /\ MergeIdle /\ JourneyIdle /\ MatchIdle /\ QueueIdle /\ RaceIdle /\ FaultIdle /\ SortIdle

SpecWorkflow == InitWorkflowOnly /\ [][NextWorkflow]_vars

\* The call got no text from Gemini: no model, an exception, or a response
\* whose text is None or empty.
NoText(response) == ~llm.configured \/ response.raises \/ ~Truthy(response.text)

\* C19: every advisory call that gets no text from the LLM (not configured,
\* raises, no text) answers with its deterministic rule-based text, and the
\* validation, the matches and the schedule recommendation of the workflow
\* result are those of the run without an LLM.
C19_AdvisoryDegradesToFallback ==
    workflow # <<>> =>
        /\ NoText(llm.validation) =>
               workflow.validation_recommendation
                   = validation_fallback(workflow.validation)
        /\ ((\E i \in 1..Len(workflow.agents_executed) :
                 workflow.agents_executed[i] = "CaregiverMatchingAgent")
            /\ NoText(llm.matching)) =>
               workflow.matching_recommendation
                   = IF workflow.matches = <<>>
                     THEN "NO MATCHES: No caregivers found in the area for "
                          \o workflow.referral_id
                     ELSE matching_fallback(workflow.matches)
        /\ NoText(llm.scheduling) =>
               workflow.scheduling_recommendation
                   = scheduling_fallback(workflow.schedule_recommendation)
        /\ workflow.validation = validate_referral(wreferral)
        /\ workflow.matches = workflow_matches(wreferral, wcaregivers)
        /\ workflow.schedule_recommendation
               = process_referral(wreferral, wcaregivers, NotConfigured).schedule_recommendation

\* The events of a stage that autopilot recorded for a case.
AutopilotEvents(rid, st) ==
    {i \in 1..Len(EventsOf(journey, rid)) :
        /\ EventsOf(journey, rid)[i].stage = st
        /\ EventsOf(journey, rid)[i].source = "autopilot"}

\* Event i of the case was recorded when an event of stage `before` was at
\* least `delay` seconds old.
AfterAged(rid, i, before, delay) ==
    \E j \in 1..Len(EventsOf(journey, rid)) :
        /\ EventsOf(journey, rid)[j].stage = before
        /\ EventsOf(journey, rid)[i].at - EventsOf(journey, rid)[j].at >= delay

\* C23: autopilot records HOME_ASSESSMENT_COMPLETED only when a
\* HOME_ASSESSMENT_SCHEDULED event is at least the delay old (so never in the
\* tick that recorded it), READY_TO_BILL only for a scheduled case whose
\* SCHEDULED event is that old, and SERVICE_COMPLETED only when a
\* READY_TO_BILL event is that old.
C23_DelayedStagesAfterAgedPredecessor ==
    \A rid \in DOMAIN journey :
        /\ \A i \in AutopilotEvents(rid, "HOME_ASSESSMENT_COMPLETED") :
               AfterAged(rid, i, "HOME_ASSESSMENT_SCHEDULED",
                         AUTOPILOT_HOME_ASSESSMENT_DELAY_SEC)
        /\ \A i \in AutopilotEvents(rid, "READY_TO_BILL") :
               /\ AfterAged(rid, i, "SCHEDULED", AUTOPILOT_READY_TO_BILL_DELAY_SEC)
               /\ rid \in DOMAIN sched /\ sched[rid].schedule_status = "SCHEDULED"
        /\ \A i \in AutopilotEvents(rid, "SERVICE_COMPLETED") :
               AfterAged(rid, i, "READY_TO_BILL", AUTOPILOT_COMPLETE_DELAY_SEC)

\* A case that autopilot took through all three delayed stages.
C23_Witness ==
    \E rid \in DOMAIN journey :
        /\ AutopilotEvents(rid, "HOME_ASSESSMENT_COMPLETED") # {}
        /\ AutopilotEvents(rid, "READY_TO_BILL") # {}
        /\ AutopilotEvents(rid, "SERVICE_COMPLETED") # {}

\* The row carries no marker of an intake source: no intake_source, and a
\* rationale that is not the one a PDF intake writes.
Unflagged(r) == r.intake_source = "" /\ r.agent_rationale # PdfRationale

\* C24: a tick on a case that is not flagged as eligible changes nothing: the
\* journey store (the events and stage pointer of that case and of every
\* other case) and the scheduling store stay as they were, so such a case
\* never gets an entry in either store from a tick.
C24_TickOnIneligibleCaseIsNoOp ==
    \A i \in 1..Len(runtime) :
        Unflagged(runtime[i]) =>
            /\ _autopilot_tick_for_referral(_load_runtime_referrals(World)[i],
                                            World, now).journey = journey
            /\ _autopilot_tick_for_referral(_load_runtime_referrals(World)[i],
                                            World, now).sched = sched
            /\ runtime[i].referral_id \notin DOMAIN journey \cup DOMAIN sched

\* A tick ran over an unflagged case and a case that autopilot had scheduled.
C24_Witness ==
    /\ lastOp = "tick"
    /\ \E i \in 1..Len(runtime) : Unflagged(runtime[i])
    /\ sched # <<>>

-----------------------------------------------------------------------------
(***************************************************************************)
(* Part IX.  Ticks during which the writes of one store fail (the file is  *)
(* not writable).  No function of the tick raises or returns a value: the  *)
(* caller of _autopilot_tick_all gets None either way.                     *)
(***************************************************************************)
FailingStores == {"journey", "scheduling"}

\* A tick while the writes of one store fail.
FaultyTick ==
    /\ runtime # <<>>
    /\ \E failing \in FailingStores :
           /\ Handled("faulty_tick", tick_all_with(World, now, failing))
           /\ fault' = failing
    /\ surfaced' = FALSE
    /\ UNCHANGED <<now, manual>>

NextFaulty ==
    \/ intake_from_pdf /\ UNCHANGED <<pipeVars, mergeVars, twin, extVars>>
    \/ AutopilotTick /\ UNCHANGED <<pipeVars, mergeVars, twin, extVars>>
    \/ FaultyTick /\ UNCHANGED <<pipeVars, mergeVars, twin, matchVars, queueVars, raceVars, workVars, sortVars>>
    \/ ClockAdvance /\ UNCHANGED <<pipeVars, mergeVars, twin, extVars>>

SpecFaulty == InitJourney /\ [][NextFaulty]_vars

\* C25: a tick during which a store write fails reports the failure to its
\* caller and leaves the journey store and the scheduling store as they
\* were: no part of its effects is stored and the failure is not swallowed.
C25_StoreFailureSurfacedStateUnchanged ==
    [][lastOp' = "faulty_tick" =>
           /\ surfaced'
           /\ journey' = journey
           /\ sched' = sched]_vars

\* The stages in the order a tick reaches them.
TickOrder ==
    <<"INTAKE_RECEIVED", "DOCS_COMPLETED", "AUTH_PENDING", "HOME_ASSESSMENT_SCHEDULED",
      "HOME_ASSESSMENT_COMPLETED", "SCHEDULED", "READY_TO_BILL", "SERVICE_COMPLETED">>

TickRank(st) == CHOOSE k \in 1..Len(TickOrder) : TickOrder[k] = st

\* The most advanced stage of a non-empty event log.
MostAdvanced(events) ==
    CHOOSE st \in {events[i].stage : i \in 1..Len(events)} :
        \A i \in 1..Len(events) : TickRank(events[i].stage) <= TickRank(st)

PointerAtMostAdvanced ==
    \A rid \in DOMAIN journey :
        journey[rid].current_stage = MostAdvanced(journey[rid].events)

PointerNotBack ==
    \A rid \in DOMAIN journey :
        /\ rid \in DOMAIN journey'
        /\ TickRank(journey'[rid].current_stage) >= TickRank(journey[rid].current_stage)

\* C26: after every tick the current_stage pointer of a case names the most
\* advanced stage of its event log, and from one tick to the next the
\* pointer never moves back to an earlier stage.
C26_PointerAtMostAdvancedStage ==
    []PointerAtMostAdvanced /\ [][PointerNotBack]_vars

\* The decision of the scheduling store for the case is a booking: status
\* SCHEDULED and a caregiver.
Booked(S, rid) ==
    /\ rid \in DOMAIN S
    /\ S[rid].schedule_status = "SCHEDULED"
    /\ S[rid].assigned_caregiver_id # ""

ScheduledEventHasDecision ==
    \A rid \in DOMAIN journey :
        AutopilotEvents(rid, "SCHEDULED") # {} =>
            /\ Booked(sched, rid)
            /\ Cardinality(AutopilotEvents(rid, "SCHEDULED")) = 1
            /\ \E i \in 1..Len(Caregivers) :
                   Caregivers[i].caregiver_id = sched[rid].assigned_caregiver_id

\* A step keeps every decision the scheduling store holds, and an autopilot
\* SCHEDULED event that is new after the step stands beside its decision.
AssignmentKept ==
    /\ \A rid \in DOMAIN sched : rid \in DOMAIN sched' /\ sched'[rid] = sched[rid]
    /\ \A rid \in DOMAIN journey' :
           (\E i \in 1..Len(EventsOf(journey', rid)) :
                /\ EventsOf(journey', rid)[i].stage = "SCHEDULED"
                /\ EventsOf(journey', rid)[i].source = "autopilot"
                /\ i > Len(EventsOf(journey, rid)))
               => Booked(sched', rid)

-----------------------------------------------------------------------------
(***************************************************************************)
(* Part X.  The autopilot over unbounded time.  The tick reads a time      *)
(* stamp only through (utcnow - at) >= delay, so once the clock stands at  *)
(* MaxTime a further step of time is taken by moving every time stamp back *)
(* by the step instead: an event moved to 0 is at least MaxTime old, which *)
(* is beyond every delay, and the order of the events is kept.             *)
(***************************************************************************)
Rebased(J, d) ==
    [rid \in DOMAIN J |->
        [J[rid] EXCEPT !.events =
            [i \in 1..Len(J[rid].events) |->
                [J[rid].events[i] EXCEPT !.at = Max(0, J[rid].events[i].at - d)]]]]

\* Time passes between two requests, without end.
ClockRoll ==
    /\ \E d \in ClockSteps :
           IF now + d <= MaxTime
           THEN now' = now + d /\ journey' = journey
           ELSE now' = now /\ journey' = Rebased(journey, d)
    /\ lastOp' = "clock"
    /\ UNCHANGED <<runtime, sched, manual>>

NextLive ==
    \/ intake_from_pdf /\ UNCHANGED <<pipeVars, mergeVars, twin, extVars>>
    \/ simulate_referral_intake /\ UNCHANGED <<pipeVars, mergeVars, twin, extVars>>
    \/ AutopilotTick /\ UNCHANGED <<pipeVars, mergeVars, twin, extVars>>
    \/ ClockRoll /\ UNCHANGED <<pipeVars, mergeVars, twin, extVars>>

\* A request that ticks arrives.  AutopilotTick has no guard and is the only
\* step that leaves lastOp = "tick", so weak fairness of this step on lastOp
\* is weak fairness of the tick as seen on the record of the last call.
TickArrives == lastOp # "tick" /\ lastOp' = "tick"

\* Requests keep coming and time keeps passing.
LiveFairness ==
    /\ WF_lastOp(TickArrives)
    /\ WF_vars(ClockRoll /\ UNCHANGED <<pipeVars, mergeVars, twin, extVars>>)

SpecLive == InitJourney /\ [][NextLive]_vars /\ LiveFairness

\* The ids intake gives to new referrals.
LiveIds == 1002..(1001 + MaxCases)

LoadedCase(rid) ==
    LET rows == _load_runtime_referrals(World)
    IN rows[CHOOSE i \in 1..Len(rows) : rows[i].referral_id = rid]

\* The case is eligible, insured, cleared for authorization, not scheduled,
\* and an active caregiver has room.
Schedulable(rid) ==
    /\ rid \in RuntimeIds(World)
    /\ _autopilot_should_run(LoadedCase(rid))
    /\ LoadedCase(rid).insurance_active = "Y"
    /\ (LoadedCase(rid).auth_required # "Y" \/ LoadedCase(rid).auth_status = "APPROVED")
    /\ LoadedCase(rid).schedule_status = "NOT_SCHEDULED"
    /\ \E i \in 1..Len(Caregivers) : Available(i)

Completed(rid) == has_stage(EventsOf(journey, rid), "SERVICE_COMPLETED") # 0

NoEventAfterCompleted ==
    \A rid \in LiveIds :
        Completed(rid) => Len(EventsOf(journey', rid)) = Len(EventsOf(journey, rid))

\* C29: with ticks and the clock both fair and nothing else touching the
\* stores, every eligible case with active insurance, authorization not
\* required or approved, schedule status NOT_SCHEDULED and an active
\* caregiver with room eventually has SERVICE_COMPLETED in its event log,
\* and from then on no step appends an event for it.
C29_SchedulableCaseCompletes ==
    /\ \A rid \in LiveIds : Schedulable(rid) ~> Completed(rid)
    /\ [][NoEventAfterCompleted]_vars

\* A case whose authorization was required and approved was taken by ticks
\* to SERVICE_COMPLETED.
C29_Witness ==
    /\ lastOp = "tick"
    /\ \E rid \in LiveIds :
           /\ rid \in RuntimeIds(World)
           /\ LoadedCase(rid).auth_required = "Y" /\ LoadedCase(rid).auth_status = "APPROVED"
           /\ Completed(rid)
           /\ AutopilotEvents(rid, "SERVICE_COMPLETED") # {}

-----------------------------------------------------------------------------
(***************************************************************************)
(* Part XI.  SortingAgent.sort_referrals behind get_pending_referrals.     *)
(* What Gemini answers is not the program's to decide: it raises, or it    *)
(* returns a text, given here by its pieces between commas.                *)
(***************************************************************************)
MaxSort == 3
MaxPieces == 3
MaxPending == 2

SortProfiles == [urgency : {"Urgent", "Routine"}, contact_attempts : {0, 2}]

\* The pieces of response.text.strip().split(',').
Pieces == {"0", "1", " 2", "7", "-1", ""}

GeminiReplies ==
    {[raises |-> TRUE, pieces |-> <<>>]}
    \cup {[raises |-> FALSE, pieces |-> p] :
             p \in UNION {[1..n -> Pieces] : n \in 1..MaxPieces}}

\* [int(idx.strip()) for idx in ... if idx.strip().isdigit()]
parse_indices(pieces) ==
    LET kept == SelectSeq(pieces, LAMBDA idx : IsDigits(str_strip(idx)))
    IN [k \in 1..Len(kept) |-> digits_value(str_strip(kept[k]))]

\* [i for i in range(n) if i not in sorted_indices]
missing_indices(sorted_indices, n) ==
    SelectSeq([i \in 1..n |-> i - 1],
              LAMBDA i : \A k \in 1..Len(sorted_indices) : sorted_indices[k] # i)

\* The key of the fallback: (0 if urgent else 1, contact_attempts).
fallback_le(a, b) ==
    LET ua == IF a.urgency = "Urgent" THEN 0 ELSE 1
        ub == IF b.urgency = "Urgent" THEN 0 ELSE 1
    IN ua < ub \/ (ua = ub /\ a.contact_attempts <= b.contact_attempts)

\* sorted(referrals, key=...): stable.
RECURSIVE fallback_sort(_)
fallback_sort(referrals) ==
    IF referrals = <<>> THEN <<>>
    ELSE LET head == fallback_sort(SubSeq(referrals, 1, Len(referrals) - 1))
             x == referrals[Len(referrals)]
             before == SelectSeq(head, LAMBDA y : fallback_le(y, x))
             after == SelectSeq(head, LAMBDA y : ~fallback_le(y, x))
         IN before \o <<x>> \o after

sort_referrals(referrals, reply) ==
    IF Len(referrals) <= 1 THEN referrals
    ELSE IF reply.raises THEN fallback_sort(referrals)
    ELSE LET valid == SelectSeq(parse_indices(reply.pieces),
                                LAMBDA idx : 0 <= idx /\ idx < Len(referrals))
             sorted_indices == valid \o missing_indices(valid, Len(referrals))
         IN [k \in 1..Len(sorted_indices) |-> referrals[sorted_indices[k] + 1]]

InitSort ==
    /\ sreferrals = <<>> /\ sreply = <<>> /\ sorted_referrals = <<>> /\ final_referrals = <<>>
    /\ sortpc = "build"

\* One more row in the answer of the query.
AddPending ==
    /\ sortpc = "build"
    /\ Len(sreferrals) < MaxSort
    /\ \E profile \in SortProfiles :
        sreferrals' = Append(sreferrals,
            [referral_id |-> Len(sreferrals) + 1, urgency |-> profile.urgency,
             contact_attempts |-> profile.contact_attempts])
    /\ UNCHANGED <<sreply, sorted_referrals, final_referrals, sortpc>>

\* GET pending referrals, database mode: at most 2 * max_pending rows are
\* sorted and the first max_pending are returned.
get_pending_referrals ==
    /\ sortpc = "build"
    /\ \E max_pending \in 1..MaxPending, reply \in GeminiReplies :
        /\ Len(sreferrals) <= 2 * max_pending
        /\ sreply' = reply
        /\ sorted_referrals' = sort_referrals(sreferrals, reply)
        /\ final_referrals' = SubSeq(sorted_referrals', 1, Min(max_pending, Len(sorted_referrals')))
    /\ sortpc' = "sorted"
    /\ UNCHANGED sreferrals

NextSort ==
    \/ AddPending /\ UNCHANGED <<pipeVars, mergeVars, journeyVars, twin, matchVars, queueVars, raceVars, workVars, faultVars>>
    \/ get_pending_referrals /\ UNCHANGED <<pipeVars, mergeVars, journeyVars, twin, matchVars, queueVars, raceVars, workVars, faultVars>>

InitSortOnly == InitSort /\ PipeIdle /\ MergeIdle /\ JourneyIdle /\ MatchIdle /\ QueueIdle /\ RaceIdle /\ WorkIdle /\ FaultIdle

SpecSort == InitSortOnly /\ [][NextSort]_vars

\* Every element of inp is in out exactly once and out holds nothing else.
IsPermutation(out, inp) ==
    /\ Len(out) = Len(inp)
    /\ \A n \in 1..Len(inp) : Cardinality({k \in 1..Len(out) : out[k] = inp[n]}) = 1

\* C30: sort_referrals returns a permutation of its input list, whatever
\* indices Gemini returned (out of range, missing, repeated) and also when
\* Gemini fails and the fallback sort is used.
C30_SortReturnsPermutation ==
    sortpc = "sorted" => IsPermutation(sorted_referrals, sreferrals)

=============================================================================
